---- MODULE Spec2Model ----
(***************************************************************************)
(* A model of the slack bot builder: the workflow matcher and executor of  *)
(* workflow_manager.py, the message handlers of slack_events.py, the tool  *)
(* registry client of mcp_servers/mcp_utils.py and the agent loop of       *)
(* agents.py / default_agent.py.                                           *)
(*                                                                         *)
(* Strings the code inspects character by character (message text, glob    *)
(* patterns, channel and user names, ids) are sequences of one-character   *)
(* strings.  Python dicts are functions whose DOMAIN is the set of keys    *)
(* present, so `'k' in d` is "k" \in DOMAIN d.                             *)
(***************************************************************************)
EXTENDS Integers, Sequences, FiniteSets, TLC

(***************************************************************************)
(* Bounds of the model.                                                    *)
(***************************************************************************)
MaxTextLen == 3
MaxWorkflows == 2
\* model calls explored in one agent run
MaxModelCalls == 3
\* tool calls the model requests in one agent run, over all its turns
MaxToolCalls == 3
MaxLogLen == 4
MaxEvents == 3
MaxTasks == 2

(***************************************************************************)
(* Strings.                                                                *)
(***************************************************************************)
\* s.lower(), one character
LowerChar(c) ==
    CASE c = "A" -> "a"
      [] c = "O" -> "o"
      [] OTHER -> c

\* s.lower()
Lower(s) == [i \in 1..Len(s) |-> LowerChar(s[i])]

\* \w of the regex engine: every character of the model but these
IsWordChar(c) == c \notin {" ", "*", "?", "(", ")", ".", "\\", "@"}

\* all strings over alphabet of length at most n
StringsUpTo(alphabet, n) == UNION {[1..k -> alphabet] : k \in 0..n}

(***************************************************************************)
(* re.search(pattern, text, re.IGNORECASE) for the patterns match_workflow *)
(* can build: literals, `.`, `x*`, `\b`, and an unclosed `(`.              *)
(***************************************************************************)
\* s.replace('*', '.*').replace('?', '.')
RECURSIVE wildcard_to_regex(_)
wildcard_to_regex(w) ==
    IF w = <<>> THEN <<>>
    ELSE LET c == Head(w)
             r == wildcard_to_regex(Tail(w))
         IN  CASE c = "*" -> <<".", "*">> \o r
               [] c = "?" -> <<".">> \o r
               [] OTHER -> <<c>> \o r

\* number of `(` of p not closed by a later `)`
RECURSIVE OpenParens(_, _)
OpenParens(p, depth) ==
    IF p = <<>> THEN depth
    ELSE CASE Head(p) = "(" -> OpenParens(Tail(p), depth + 1)
           [] Head(p) = ")" /\ depth > 0 -> OpenParens(Tail(p), depth - 1)
           [] OTHER -> OpenParens(Tail(p), depth)

\* re.compile raises re.error ("missing ), unterminated subpattern")
re_error(p) == OpenParens(p, 0) > 0

\* the pattern as a sequence of items [atom, star]; atom "\\b" is the
\* word-boundary assertion, "." any character, anything else a literal
RECURSIVE re_parse(_)
re_parse(p) ==
    IF p = <<>> THEN <<>>
    ELSE IF Head(p) = "\\" /\ Len(p) >= 2 /\ p[2] = "b"
         THEN <<[atom |-> "\\b", star |-> FALSE]>> \o re_parse(SubSeq(p, 3, Len(p)))
    ELSE IF Len(p) >= 2 /\ p[2] = "*"
         THEN <<[atom |-> Head(p), star |-> TRUE]>> \o re_parse(SubSeq(p, 3, Len(p)))
    ELSE <<[atom |-> Head(p), star |-> FALSE]>> \o re_parse(Tail(p))

AtomMatches(atom, c) == atom = "." \/ LowerChar(atom) = LowerChar(c)

\* \b at position i: between text[i-1] and text[i]
IsWordBoundary(text, i) ==
    LET word(j) == j \in 1..Len(text) /\ IsWordChar(text[j])
    IN  word(i - 1) # word(i)

\* the items from k on match a prefix of text[i..]
RECURSIVE re_match_from(_, _, _, _)
re_match_from(items, k, text, i) ==
    IF k > Len(items) THEN TRUE
    ELSE LET it == items[k] IN
         IF it.atom = "\\b"
         THEN IsWordBoundary(text, i) /\ re_match_from(items, k + 1, text, i)
         ELSE IF it.star
         THEN \E j \in i..(Len(text) + 1) :
                 /\ \A m \in i..(j - 1) : AtomMatches(it.atom, text[m])
                 /\ re_match_from(items, k + 1, text, j)
         ELSE /\ i <= Len(text)
              /\ AtomMatches(it.atom, text[i])
              /\ re_match_from(items, k + 1, text, i + 1)

\* re.search(p, text, re.IGNORECASE) is not None; p compiles
re_search(p, text) ==
    LET items == re_parse(p)
    IN  \E i \in 1..(Len(text) + 1) : re_match_from(items, 1, text, i)

(***************************************************************************)
(* Python values.                                                          *)
(***************************************************************************)
\* None, where the other values are dicts
NoneValue == [none |-> TRUE]

\* None, where the other values are strings
NoneStr == "<None>"

\* {} and []
EmptyDict == << >>

\* d.get(k, default)
Get(d, k, default) == IF k \in DOMAIN d THEN d[k] ELSE default

\* bool(d) of an Optional[dict]
Truthy(d) == d # NoneValue /\ DOMAIN d # {}

\* the characters of s
CharsOf(s) == {s[i] : i \in 1..Len(s)}

(***************************************************************************)
(* The workflow registry (workflows.yaml) and the matcher.                 *)
(***************************************************************************)
TextChars == {"a", "A", " "}
Texts == StringsUpTo(TextChars, MaxTextLen)

ops == <<"o", "p", "s">>
Ops == <<"O", "p", "s">>
dev == <<"d", "e", "v">>
alice == <<"a", "l">>
Alice == <<"A", "l">>
bob == <<"b", "o", "b">>
star == <<"*">>

ChannelNames == {ops, dev}
UserNames == {Alice, bob}

\* workflow definitions a workflows.yaml can hold
WorkflowDefs ==
    { [name |-> "any", action_script |-> "s.py"],
      [name |-> "mention", app_mention_required |-> TRUE, action_prompt |-> "p.md"],
      [name |-> "chan", channel_name |-> Ops, action_script |-> "s.py"],
      [name |-> "chanstar", channel_name |-> star, wildcard |-> <<"a", "*">>],
      [name |-> "user", user_name |-> alice, app_mention_required |-> FALSE],
      [name |-> "userstar", user_name |-> star, wildcard |-> <<"?", "a">>],
      [name |-> "word", wildcard |-> <<"a">>, action_prompt |-> "p.md"],
      [name |-> "empty", wildcard |-> <<>>, channel_name |-> dev],
      [name |-> "bad", wildcard |-> <<"(">>, action_script |-> "s.py"],
      [name |-> "regex", regex |-> <<"a">>, action_script |-> "s.py"],
      [name |-> "all", app_mention_required |-> TRUE, channel_name |-> dev,
       user_name |-> bob, wildcard |-> <<"A", " ", "*">>,
       action_script |-> "s.py", action_prompt |-> "p.md"] }

\* the ordered lists data.get('workflows', []) can be
WorkflowLists == UNION {[1..k -> WorkflowDefs] : k \in 0..MaxWorkflows}

\* the iteration with the word-boundary anchors never added
workflow_passes_unanchored(workflow, message_text, channel_name, user_name, is_app_mentioned) ==
    /\ ~(Get(workflow, "app_mention_required", FALSE) /\ ~is_app_mentioned)
    /\ "channel_name" \in DOMAIN workflow =>
          LET workflow_channel == Get(workflow, "channel_name", star)
          IN  ~(workflow_channel # star /\ Lower(workflow_channel) # Lower(channel_name))
    /\ "user_name" \in DOMAIN workflow =>
          LET workflow_user == Get(workflow, "user_name", star)
          IN  ~(workflow_user # star /\ Lower(workflow_user) # Lower(user_name))
    /\ "wildcard" \in DOMAIN workflow =>
          LET wildcard_pattern == Get(workflow, "wildcard", <<>>)
              regex_pattern == wildcard_to_regex(wildcard_pattern)
          IN  wildcard_pattern # <<>> =>
                 /\ ~re_error(regex_pattern)
                 /\ re_search(regex_pattern, message_text)

\* the iteration without the `continue` of the mention check
workflow_passes_unmentioned(workflow, message_text, channel_name, user_name, is_app_mentioned) ==
    /\ "channel_name" \in DOMAIN workflow =>
          LET workflow_channel == Get(workflow, "channel_name", star)
          IN  ~(workflow_channel # star /\ Lower(workflow_channel) # Lower(channel_name))
    /\ "user_name" \in DOMAIN workflow =>
          LET workflow_user == Get(workflow, "user_name", star)
          IN  ~(workflow_user # star /\ Lower(workflow_user) # Lower(user_name))
    /\ "wildcard" \in DOMAIN workflow =>
          LET wildcard_pattern == Get(workflow, "wildcard", <<>>)
              translated == wildcard_to_regex(wildcard_pattern)
              regex_pattern == IF "*" \notin CharsOf(wildcard_pattern)
                               THEN <<"\\", "b">> \o translated \o <<"\\", "b">>
                               ELSE translated
          IN  wildcard_pattern # <<>> =>
                 /\ ~re_error(regex_pattern)
                 /\ re_search(regex_pattern, message_text)

\* one iteration of the loop of match_workflow: the workflow is not skipped
\* by any `continue`
workflow_passes(workflow, message_text, channel_name, user_name, is_app_mentioned) ==
    /\ ~(Get(workflow, "app_mention_required", FALSE) /\ ~is_app_mentioned)
    /\ "channel_name" \in DOMAIN workflow =>
          LET workflow_channel == Get(workflow, "channel_name", star)
          IN  ~(workflow_channel # star /\ Lower(workflow_channel) # Lower(channel_name))
    /\ "user_name" \in DOMAIN workflow =>
          LET workflow_user == Get(workflow, "user_name", star)
          IN  ~(workflow_user # star /\ Lower(workflow_user) # Lower(user_name))
    /\ "wildcard" \in DOMAIN workflow =>
          LET wildcard_pattern == Get(workflow, "wildcard", <<>>)
              translated == wildcard_to_regex(wildcard_pattern)
              regex_pattern == IF "*" \notin CharsOf(wildcard_pattern)
                               THEN <<"\\", "b">> \o translated \o <<"\\", "b">>
                               ELSE translated
          IN  wildcard_pattern # <<>> =>
                 /\ ~re_error(regex_pattern)
                 /\ re_search(regex_pattern, message_text)

\* the pattern of a workflow's wildcard, as handed to re.search
compiled_pattern(workflow) ==
    LET wildcard_pattern == Get(workflow, "wildcard", <<>>)
        translated == wildcard_to_regex(wildcard_pattern)
    IN  IF "*" \notin CharsOf(wildcard_pattern)
        THEN <<"\\", "b">> \o translated \o <<"\\", "b">>
        ELSE translated

\* the loop ending with None at a workflow whose pattern does not compile
RECURSIVE match_from_stopping(_, _, _, _, _, _)
match_from_stopping(workflows, k, message_text, channel_name, user_name, is_app_mentioned) ==
    IF k > Len(workflows) THEN NoneValue
    ELSE IF /\ Get(workflows[k], "wildcard", <<>>) # <<>>
            /\ re_error(compiled_pattern(workflows[k]))
         THEN NoneValue
    ELSE IF workflow_passes(workflows[k], message_text, channel_name, user_name,
                            is_app_mentioned)
         THEN workflows[k]
         ELSE match_from_stopping(workflows, k + 1, message_text, channel_name, user_name,
                                  is_app_mentioned)

\* the loop of match_workflow from index k on
RECURSIVE match_from(_, _, _, _, _, _)
match_from(workflows, k, message_text, channel_name, user_name, is_app_mentioned) ==
    IF k > Len(workflows) THEN NoneValue
    ELSE IF workflow_passes(workflows[k], message_text, channel_name, user_name,
                            is_app_mentioned)
         THEN workflows[k]
         ELSE match_from(workflows, k + 1, message_text, channel_name, user_name,
                         is_app_mentioned)

\* match_workflow with the loop keeping the last workflow that passes
RECURSIVE match_last_from(_, _, _, _, _, _)
match_last_from(workflows, k, message_text, channel_name, user_name, is_app_mentioned) ==
    IF k < 1 THEN NoneValue
    ELSE IF workflow_passes(workflows[k], message_text, channel_name, user_name,
                            is_app_mentioned)
         THEN workflows[k]
         ELSE match_last_from(workflows, k - 1, message_text, channel_name, user_name,
                              is_app_mentioned)
match_workflow_last(workflows, message_data, channel_name, user_name, is_app_mentioned) ==
    match_last_from(workflows, Len(workflows), Get(message_data, "text", <<>>),
                    channel_name, user_name, is_app_mentioned)

\* WorkflowManager.match_workflow
match_workflow(workflows, message_data, channel_name, user_name, is_app_mentioned) ==
    match_from(workflows, 1, Get(message_data, "text", <<>>), channel_name, user_name,
               is_app_mentioned)

(***************************************************************************)
(* The workflow executor (workflow_manager.py): child processes.           *)
(***************************************************************************)
script_timeout == 30
prompt_timeout == 60

\* a line of a child's standard output: a JSON document or other text
JsonLine(value) == [kind |-> "json", value |-> value]
TextLine == [kind |-> "text"]

\* json.loads(result.stdout.strip()): the whole output must be one document
json_loads(stdout) ==
    IF Len(stdout) = 1 /\ stdout[1].kind = "json"
    THEN [ok |-> TRUE, value |-> stdout[1].value]
    ELSE [ok |-> FALSE, value |-> NoneValue]

\* the outbound message the action programs build from their argument
child_response(payload, text) ==
    [text |-> text, channel |-> Get(payload, "channel", << >>),
     thread_ts |-> Get(payload, "thread_ts", Get(payload, "ts", << >>))]

\* what subprocess.run can observe of a script given payload
ChildOutcomes(payload) ==
    {[timed_out |-> TRUE, returncode |-> 0, stdout |-> << >>]}
    \cup {[timed_out |-> FALSE, returncode |-> 1, stdout |-> out] :
            out \in {<< >>, <<JsonLine(child_response(payload, "reply"))>>}}
    \cup {[timed_out |-> FALSE, returncode |-> 0, stdout |-> out] :
            out \in {<<JsonLine(child_response(payload, "reply"))>>,
                     <<TextLine>>,
                     <<TextLine, JsonLine(child_response(payload, "reply"))>>,
                     <<JsonLine([error |-> "failed"])>>,
                     <<JsonLine(child_response(payload, ""))>>}}

\* the outbound message main of prompt_executor.py builds: in the thread of
\* the message's own ts
prompt_executor_response(payload, text) ==
    [text |-> text, channel |-> Get(payload, "channel", << >>),
     thread_ts |-> Get(payload, "ts", << >>), tool_calls |-> << >>, errors |-> << >>]

\* what subprocess.run can observe of prompt_executor.py, which writes its
\* result and nothing else to standard output
PromptExecutorOutcomes(payload) ==
    {[timed_out |-> TRUE, returncode |-> 0, stdout |-> << >>],
     [timed_out |-> FALSE, returncode |-> 1, stdout |-> << >>],
     [timed_out |-> FALSE, returncode |-> 0,
      stdout |-> <<JsonLine(prompt_executor_response(payload, "reply"))>>],
     [timed_out |-> FALSE, returncode |-> 0, stdout |-> <<JsonLine([error |-> "failed"])>>]}

\* main of prompt_executor.py: the instructions it puts into its system
\* prompt, read from the key prompt_content of its argument
runbook_content(slack_message) == Get(slack_message, "prompt_content", << >>)

\* the mode execute_workflow runs the workflow in
is_prompt_driven(workflow) ==
    \/ Get(workflow, "action_prompt", NoneStr) # NoneStr
    \/ Get(workflow, "action_script", NoneStr) = NoneStr

\* what subprocess.run can observe of the child of the workflow
ChildOutcomesOf(workflow, payload) ==
    IF is_prompt_driven(workflow) THEN PromptExecutorOutcomes(payload)
    ELSE ChildOutcomes(payload)

\* which of the files the executor looks for is missing
MissingFiles == {"none", "prompt", "program"}

\* an execute call's outcome: the children it spawned and what it returned
Executed(spawns, response) == [spawns |-> spawns, response |-> response]

Spawn(program, payload, timeout) ==
    [program |-> program, payload |-> payload, timeout |-> timeout]

\* the handling of subprocess.run's result with the return code not looked at
run_result_any_code(child) ==
    IF child.timed_out THEN NoneValue
    ELSE LET parsed == json_loads(child.stdout)
         IN  IF parsed.ok THEN parsed.value ELSE NoneValue

\* the handling of subprocess.run's result in both execute functions
run_result(child) ==
    IF child.timed_out THEN NoneValue
    ELSE IF child.returncode # 0 THEN NoneValue
    ELSE LET parsed == json_loads(child.stdout)
         IN  IF parsed.ok THEN parsed.value ELSE NoneValue

\* execute_script_workflow running the script again after a timeout
execute_script_workflow_retrying(message_data, action_script, missing, child) ==
    LET spawn == Spawn(<<"scripts", action_script>>, message_data, script_timeout)
    IN  IF missing = "program" THEN Executed(<< >>, NoneValue)
        ELSE IF child.timed_out THEN Executed(<<spawn, spawn>>, run_result(child))
        ELSE Executed(<<spawn>>, run_result(child))

\* WorkflowManager.execute_script_workflow
execute_script_workflow(message_data, action_script, missing, child) ==
    IF missing = "program" THEN Executed(<< >>, NoneValue)
    ELSE Executed(<<Spawn(<<"scripts", action_script>>, message_data, script_timeout)>>,
                  run_result(child))

\* WorkflowManager.execute_prompt_workflow; action_prompt may be None
execute_prompt_workflow(message_data, action_prompt, missing, child) ==
    IF action_prompt # NoneStr /\ missing = "prompt" THEN Executed(<< >>, NoneValue)
    ELSE LET enhanced_message ==
                 IF action_prompt # NoneStr
                 THEN [k \in DOMAIN message_data \cup {"specific_instructions_to_ai"} |->
                          IF k = "specific_instructions_to_ai"
                          THEN <<"content of", action_prompt>> ELSE message_data[k]]
                 ELSE message_data
         IN  IF missing = "program" THEN Executed(<< >>, NoneValue)
             ELSE Executed(<<Spawn(<<"prompt_executor.py">>, enhanced_message,
                                   prompt_timeout)>>,
                           run_result(child))

\* execute_workflow without the return after the prompt-driven mode
execute_workflow_both(workflow, message_data, missing, child) ==
    LET action_prompt == Get(workflow, "action_prompt", NoneStr)
        action_script == Get(workflow, "action_script", NoneStr)
        p == execute_prompt_workflow(message_data, action_prompt, missing, child)
        q == execute_script_workflow(message_data, action_script, missing, child)
    IN  IF action_prompt # NoneStr /\ action_script # NoneStr
        THEN Executed(p.spawns \o q.spawns, q.response)
        ELSE IF action_prompt # NoneStr THEN p
        ELSE IF action_script # NoneStr THEN q
        ELSE execute_prompt_workflow(message_data, NoneStr, missing, child)

\* execute_workflow looking at action_script before action_prompt
execute_workflow_script_first(workflow, message_data, missing, child) ==
    LET action_prompt == Get(workflow, "action_prompt", NoneStr)
        action_script == Get(workflow, "action_script", NoneStr)
    IN  IF action_script # NoneStr
        THEN execute_script_workflow(message_data, action_script, missing, child)
        ELSE execute_prompt_workflow(message_data, action_prompt, missing, child)

\* WorkflowManager.execute_workflow
execute_workflow(workflow, message_data, missing, child) ==
    LET action_prompt == Get(workflow, "action_prompt", NoneStr)
        action_script == Get(workflow, "action_script", NoneStr)
    IN  IF action_prompt # NoneStr
        THEN execute_prompt_workflow(message_data, action_prompt, missing, child)
        ELSE IF action_script # NoneStr
        THEN execute_script_workflow(message_data, action_script, missing, child)
        ELSE execute_prompt_workflow(message_data, NoneStr, missing, child)

(***************************************************************************)
(* The message handlers (slack_events.py).                                 *)
(***************************************************************************)
\* max_processed_messages (1000 in the source) and the number of keys the
\* cleanup keeps (500 in the source), scaled to the few keys of the model
max_processed_messages == 2
kept_processed_messages == 1

\* the user id auth.test reports for the bot
BotUserId == <<"B">>

\* the (ts, channel, user) triples of the events delivered
Triples ==
    { [ts |-> <<"1">>, channel |-> <<"C">>, user |-> <<"U">>],
      [ts |-> <<"2">>, channel |-> <<"C">>, user |-> <<"U">>],
      [ts |-> <<"1">>, channel |-> <<"D">>, user |-> <<"U">>],
      [ts |-> <<"1">>, channel |-> <<"C">>, user |-> BotUserId] }

\* message texts; "@" stands for the markup that mentions the bot and
\* <<"h", "i", " ", "w">> for the bot's own greeting "hi" + wave
HandlerTexts == {<< >>, <<"a">>, <<"@", " ", "a">>, <<"h", "i", " ", "w">>}
bot_response_patterns == {<<"h", "i", " ", "w">>}

\* pattern in text
Contains(text, pattern) ==
    \E i \in 0..(Len(text) - Len(pattern)) :
        \A j \in 1..Len(pattern) : text[i + j] = pattern[j]

\* the optional fields of an event
ThreadKinds == {"none", "same", "reply"}
Markers == {"plain", "bot_id", "bot_message", "message_changed", "message_deleted"}

\* the event dict of a delivery
BuildEvent(triple, text, thread, marker) ==
    LET base == [type |-> "message", ts |-> triple.ts, channel |-> triple.channel,
                 user |-> triple.user, text |-> text]
        threaded == CASE thread = "same" -> ("thread_ts" :> triple.ts)
                      [] thread = "reply" -> ("thread_ts" :> <<"0">>)
                      [] OTHER -> EmptyDict
        marked == CASE marker = "plain" -> EmptyDict
                    [] marker = "bot_id" -> ("bot_id" :> <<"X">>)
                    [] OTHER -> ("subtype" :> marker)
    IN  base @@ threaded @@ marked

Events == {BuildEvent(triple, text, thread, marker) :
              triple \in Triples, text \in HandlerTexts,
              thread \in ThreadKinds, marker \in Markers}

\* f"{message_id}_{channel_id}_{user_id}"
message_key(event_data) ==
    event_data.ts \o <<"_">> \o event_data.channel \o <<"_">> \o event_data.user

\* the handler going on without recording the key
mark_processed_skipping(processed, message_key_) == processed

\* self.processed_messages.add(message_key)
mark_processed(processed, message_key_) == processed \cup {message_key_}

\* the dedupe test with the membership test dropped
already_processed_never(message_key_, processed) == FALSE

\* `if message_key in self.processed_messages`
already_processed(message_key_, processed) == message_key_ \in processed

\* cleanup_processed_messages: list(set)[-500:] keeps 500 keys in the set's
\* iteration order, which is any order
cleanup_processed_messages(processed) ==
    IF Cardinality(processed) > max_processed_messages
    THEN {kept \in SUBSET processed : Cardinality(kept) = kept_processed_messages}
    ELSE {processed}

\* SlackEventHandler.is_bot_mentioned
is_bot_mentioned(message_text, bot_user_id) ==
    /\ bot_user_id # NoneStr
    /\ "@" \in CharsOf(message_text)

\* the registries the handlers run against
HandlerRegistries ==
    { << >>,
      << [name |-> "word", wildcard |-> <<"a">>, action_prompt |-> "p.md"],
         [name |-> "any", action_script |-> "s.py"] >>,
      << [name |-> "all", app_mention_required |-> TRUE, channel_name |-> dev,
          wildcard |-> <<"a", "*">>, action_script |-> "s.py",
          action_prompt |-> "p.md"],
         [name |-> "default", user_name |-> alice] >> }

\* send_workflow_response without the test of text and channel
send_workflow_response_unchecked(workflow_response) ==
    LET text == Get(workflow_response, "text", "")
        channel == Get(workflow_response, "channel", << >>)
        thread_ts == Get(workflow_response, "thread_ts", << >>)
        message_payload == [channel |-> channel, text |-> text,
                            response_type |-> "in_channel"]
    IN  IF thread_ts # << >>
        THEN <<message_payload @@ ("thread_ts" :> thread_ts)>>
        ELSE <<message_payload>>

\* SlackEventHandler.send_workflow_response: the chat.postMessage payloads
send_workflow_response(workflow_response) ==
    LET text == Get(workflow_response, "text", "")
        channel == Get(workflow_response, "channel", << >>)
        thread_ts == Get(workflow_response, "thread_ts", << >>)
        message_payload == [channel |-> channel, text |-> text,
                            response_type |-> "in_channel"]
    IN  IF text = "" \/ channel = << >> THEN << >>
        ELSE IF thread_ts # << >>
        THEN <<message_payload @@ ("thread_ts" :> thread_ts)>>
        ELSE <<message_payload>>

(***************************************************************************)
(* The tool registry client (mcp_servers/mcp_utils.py).                    *)
(***************************************************************************)
\* what requests.post and resp.raise_for_status can meet
NetOutcomes == {"ok", "no_result", "http_error", "unreachable"}

\* the tools each server advertises in tools/list
ToolsOf(server) ==
    CASE server = "s1" -> <<[name |-> "t1"], [name |-> "t2"]>>
      [] server = "s2" -> <<[name |-> "t3"]>>
      [] OTHER -> << >>

\* the keys of mcp.json, in file order
ServerConfigs == {<< >>, <<"s1">>, <<"s1", "s2">>}

\* the request a client call posts: to the first configured server, id 1
jsonrpc_request(servers, method, params, request_id) ==
    [server |-> servers[1], method |-> method, params |-> params, id |-> request_id]

\* a call's outcome: it raised, or returned value; posted lists its requests
Returned(value, posted) == [raised |-> FALSE, value |-> value, posted |-> posted]
Raised(posted) == [raised |-> TRUE, value |-> NoneValue, posted |-> posted]

\* fetch_tools_list(): requests.post is outside the try block
fetch_tools_list(servers, net) ==
    IF Len(servers) = 0 THEN Returned(<< >>, << >>)
    ELSE LET posted == <<jsonrpc_request(servers, "tools/list", EmptyDict, 1)>>
         IN  CASE net = "unreachable" -> Raised(posted)
               [] net = "http_error" -> Returned(NoneValue, posted)
               [] net = "no_result" -> Raised(posted)
               [] OTHER -> Returned(ToolsOf(servers[1]), posted)

\* execute_tool(tool_name, arguments): requests.post is outside the try block
execute_tool(servers, tool_name, arguments, net) ==
    IF Len(servers) = 0
    THEN Returned(<<[message |-> "not available", tool |-> tool_name]>>, << >>)
    ELSE LET posted == <<jsonrpc_request(servers, "tools/call",
                                         [name |-> tool_name, arguments |-> arguments], 1)>>
         IN  CASE net = "unreachable" -> Raised(posted)
               [] net = "http_error" -> Returned(NoneValue, posted)
               [] net = "no_result" ->
                      Returned(<<[error |-> "Tool result is not a dictionary"]>>, posted)
               [] OTHER -> Returned(<<[type |-> "text", text |-> tool_name]>>, posted)

(***************************************************************************)
(* The agent loop (agents.py) and its caller (default_agent.py).           *)
(***************************************************************************)
\* tool_call.function.arguments: a JSON document or not
ArgumentStrings == {[json |-> TRUE, value |-> [command |-> "ls"]], [json |-> FALSE]}

\* json.loads(tool_args) handing on the string it could not parse
parse_tool_args_keeping(tool_args) == IF tool_args.json THEN tool_args.value ELSE tool_args

\* json.loads(tool_args), with `except: tool_args = {}`
parse_tool_args(tool_args) == IF tool_args.json THEN tool_args.value ELSE EmptyDict

\* the tool calls a completion can carry: calls of the tools passed to it,
\* t1 with JSON arguments and the others with arguments that do not parse
ToolCallShapes(tools) ==
    {c \in [name : {"t1", "t2", "t3"}, arguments : ArgumentStrings] :
        /\ \E i \in 1..Len(tools) : tools[i].name = c.name
        /\ c.arguments.json = (c.name = "t1")}

\* message.tool_calls of the completion of turn `turn`: the ids are fresh
ToolCallLists(tools, turn, budget) ==
    {[i \in 1..Len(shapes) |-> [id |-> <<turn, i>>, name |-> shapes[i].name,
                                arguments |-> shapes[i].arguments]] :
        shapes \in UNION {[1..k -> ToolCallShapes(tools)] : k \in 0..budget}}

\* message.content of a completion
Contents == {NoneStr, "text"}

\* message.content or ""
ContentOrEmpty(content) == IF content = NoneStr THEN "" ELSE content

\* the messages prompt_ai_agent seeds the run with
SeedMessages == <<[role |-> "system", content |-> "system_prompt"],
                  [role |-> "user", content |-> "slack_message_json"]>>

assistant_msg(content, calls) ==
    [role |-> "assistant", content |-> content, tool_calls |-> calls]

\* tool_msg carrying the id of the first call of the turn
tool_msg_first_id(call, tool_args, result_content) ==
    [role |-> "tool",
     content |-> [tool |-> call.name, arguments |-> tool_args, result |-> result_content],
     tool_call_id |-> <<call.id[1], 1>>]

tool_msg(call, tool_args, result_content) ==
    [role |-> "tool",
     content |-> [tool |-> call.name, arguments |-> tool_args, result |-> result_content],
     tool_call_id |-> call.id]

chat_text_event(content) == [type |-> "chat_text", content |-> content]

\* the event of a tool call emitted as one more chat_text
tool_result_event_as_text(call, tool_args, result_content) ==
    [type |-> "chat_text", content |-> result_content]

tool_result_event(call, tool_args, result_content) ==
    [type |-> "tool_result", tool_name |-> call.name, tool_config |-> tool_args,
     tool_result |-> result_content, tool_call_id |-> call.id]

\* `if tool_calls:` of agent_with_tools going on to the next model call
\* where the completion asked for no tool
turn_branch_recursing(calls) == IF Len(calls) > 0 THEN "tools" ELSE "model"

\* `if tool_calls:` of agent_with_tools: the loop over the calls, or return
turn_branch(calls) == IF Len(calls) > 0 THEN "tools" ELSE "done"

\* the loop over tool_calls followed by a return, not by the recursive call
after_tool_call_returning(index, calls) == IF index = Len(calls) THEN "done" ELSE "tools"

\* the loop over tool_calls leaving after its first iteration
after_tool_call_first_only(index, calls) == "model"

\* `for index, tool_call in enumerate(tool_calls)`: the next iteration, or
\* the recursive call after the last one
after_tool_call(index, calls) == IF index = Len(calls) THEN "model" ELSE "tools"

(***************************************************************************)
(* State.                                                                  *)
(***************************************************************************)
VARIABLES
    workflows,        \* WorkflowManager.workflows, the ordered registry
    match_args,       \* the arguments of a match_workflow call
    match_result,     \* what that call returned
    mcp_servers,      \* mcp_utils.mcp_servers, the configured servers in order
    tools_net,        \* what the tools/list request of the run met
    pc,               \* where the agent run is
    available_tools,  \* what fetch_tools_list returned
    messages,         \* the message list of the run
    ndjson_events,    \* the events of the turns so far, in return order
    tool_calls,       \* message.tool_calls of the turn in progress
    tool_index,       \* the index of the next tool call of that turn
    model_calls,      \* one entry per completions.create call of the run
    invocations,      \* one entry per execute_tool call of the run
    rpc_log,          \* the JSON-RPC requests posted, in order
    processed_messages, \* SlackEventHandler.processed_messages
    h_pc,             \* where the message handler is
    event_data,       \* the event of the delivery in progress
    lookup,           \* channel name, user name and mention flag looked up
    workflow,         \* what match_workflow returned to process_message
    reaction,         \* how the acknowledgment reaction went
    history,          \* how the fetch of the thread history went
    spawned,          \* the child processes spawned for the delivery
    child,            \* what subprocess.run observed of the child
    workflow_response, \* what process_message returned
    posted,           \* the chat.postMessage payloads sent for the delivery
    outcome,          \* how the handler ended
    ingress,          \* what the events endpoint answered for the request in hand
    logs_data,        \* str(logs_data) of a log_analyser_agent call
    log_message,      \* the content of the message that call appended
    aggregator,       \* which script aggregates
    agent_chat_response, \* the event stream it aggregates
    slack_message_response, \* the response it builds
    tasks,            \* the background tasks of the event loop, one per request
    match_calls,      \* the match_workflow calls made: registry, arguments, result
    last_load         \* the last load_workflows call: the file it met, what it returned

matchVars == <<workflows, match_args, match_result, match_calls, last_load>>
agentVars == <<mcp_servers, tools_net, pc, available_tools, messages, ndjson_events, tool_calls,
               tool_index, model_calls, invocations, rpc_log>>
handlerLocals == <<event_data, lookup, workflow, reaction, history, spawned, child,
                   workflow_response, posted, outcome>>
handlerVars == <<processed_messages, h_pc, ingress, handlerLocals>>
scriptVars == <<logs_data, log_message, aggregator, agent_chat_response,
                slack_message_response>>
vars == <<matchVars, agentVars, handlerVars, scriptVars, tasks>>

\* the locals of a handler that is not running
LocalsCleared ==
    /\ event_data = NoneValue
    /\ lookup = NoneValue
    /\ workflow = NoneValue
    /\ reaction = "none"
    /\ history = "none"
    /\ spawned = << >>
    /\ child = NoneValue
    /\ workflow_response = NoneValue
    /\ posted = << >>
    /\ outcome = "none"

\* the handler variables where no event is handled
HandlerIdle ==
    /\ processed_messages = {}
    /\ h_pc = "idle"
    /\ ingress = "none"
    /\ LocalsCleared

\* the agent variables where no agent runs
AgentIdle ==
    /\ mcp_servers = << >>
    /\ tools_net = "unset"
    /\ pc = "idle"
    /\ available_tools = << >>
    /\ messages = << >>
    /\ ndjson_events = << >>
    /\ tool_calls = << >>
    /\ tool_index = 1
    /\ model_calls = << >>
    /\ invocations = << >>
    /\ rpc_log = << >>

\* the script variables where no script runs
ScriptIdle ==
    /\ logs_data = << >>
    /\ log_message = NoneValue
    /\ aggregator = "none"
    /\ agent_chat_response = << >>
    /\ slack_message_response = NoneValue

\* the matcher variables where no match is asked for
MatchIdle ==
    /\ workflows = << >>
    /\ match_args = NoneValue
    /\ match_result = NoneValue
    /\ match_calls = << >>
    /\ last_load = NoneValue

(***************************************************************************)
(* The matcher on its own: match_workflow is applied to any registry and   *)
(* any event.                                                              *)
(***************************************************************************)
\* the message_data dicts match_workflow reads: with and without a text
MatchEvents == {[text |-> t] : t \in Texts} \cup {[channel |-> <<"C">>]}

\* the call has not returned yet
Pending == [pending |-> TRUE]

InitMatch ==
    /\ workflows \in WorkflowLists
    /\ match_args \in [message_data : MatchEvents, channel_name : ChannelNames,
                       user_name : UserNames, is_app_mentioned : BOOLEAN]
    /\ match_result = Pending
    /\ match_calls = << >>
    /\ last_load = NoneValue
    /\ AgentIdle
    /\ HandlerIdle
    /\ tasks = << >>
    /\ ScriptIdle

MatchWorkflow ==
    /\ match_result = Pending
    /\ UNCHANGED tasks
    /\ UNCHANGED scriptVars
    /\ match_result' = match_workflow(workflows, match_args.message_data,
                                      match_args.channel_name, match_args.user_name,
                                      match_args.is_app_mentioned)
    /\ UNCHANGED <<workflows, match_args, match_calls, last_load, agentVars, handlerVars>>

NextMatch == MatchWorkflow

SpecMatch == InitMatch /\ [][NextMatch]_vars

(***************************************************************************)
(* The registry over time: load_workflows at construction and on reload,   *)
(* and match_workflow called again and again on whatever list is loaded.   *)
(***************************************************************************)
MaxCalls == 3
MaxLoads == 2

\* what load_workflows can meet at workflows_file
WorkflowFiles ==
    {[kind |-> k] : k \in {"missing", "unreadable", "invalid_yaml", "not_mapping"}}
    \cup {[kind |-> "mapping", data |-> [workflows |-> L]] : L \in HandlerRegistries}
    \cup {[kind |-> "mapping", data |-> [version |-> "1"]],
          [kind |-> "mapping_null"]}

\* load_workflows with every failure emptying the list
load_workflows_clearing(previous, file) ==
    CASE file.kind = "mapping" ->
             [workflows |-> Get(file.data, "workflows", << >>), returned |-> TRUE]
      [] file.kind = "mapping_null" -> [workflows |-> NoneValue, returned |-> FALSE]
      [] OTHER -> [workflows |-> << >>, returned |-> FALSE]

\* load_workflows: self.workflows after the call and the value returned.
\* The assignment of line 40 is the only write; for a mapping whose
\* `workflows:` key has no value (mapping_null) it assigns None, and len()
\* of line 41 then raises into the except clause.
load_workflows(previous, file) ==
    CASE file.kind = "mapping" ->
             [workflows |-> Get(file.data, "workflows", << >>), returned |-> TRUE]
      [] file.kind = "mapping_null" -> [workflows |-> NoneValue, returned |-> FALSE]
      [] OTHER -> [workflows |-> previous, returned |-> FALSE]

\* the arguments match_workflow is called with here
RegistryArgs ==
    {[message_data |-> [text |-> <<"a">>], channel_name |-> dev, user_name |-> bob,
      is_app_mentioned |-> TRUE],
     [message_data |-> [text |-> <<"a">>], channel_name |-> ops, user_name |-> alice,
      is_app_mentioned |-> FALSE],
     [message_data |-> [channel |-> <<"C">>], channel_name |-> dev, user_name |-> alice,
      is_app_mentioned |-> FALSE]}

\* the call raised: `for workflow in self.workflows` over None
MatchRaised == [raised |-> TRUE]

\* a matcher that answers its first call only
match_workflow_call_once(registry, args) ==
    IF registry = NoneValue THEN MatchRaised
    ELSE IF match_calls # << >> THEN NoneValue
    ELSE match_workflow(registry, args.message_data, args.channel_name, args.user_name,
                        args.is_app_mentioned)

\* self.match_workflow(message_data, channel_name, user_name, is_app_mentioned)
match_workflow_call(registry, args) ==
    IF registry = NoneValue THEN MatchRaised
    ELSE match_workflow(registry, args.message_data, args.channel_name, args.user_name,
                        args.is_app_mentioned)

\* WorkflowManager.__init__: the empty list, then load_workflows
InitRegistry ==
    /\ \E file \in WorkflowFiles :
          LET r == load_workflows(<< >>, file)
          IN  /\ workflows = r.workflows
              /\ last_load = [file |-> file, returned |-> r.returned, n |-> 1]
    /\ match_args = NoneValue
    /\ match_result = NoneValue
    /\ match_calls = << >>
    /\ AgentIdle
    /\ HandlerIdle
    /\ tasks = << >>
    /\ ScriptIdle

\* reload_workflows
ReloadWorkflows ==
    /\ last_load.n < MaxLoads
    /\ \E file \in WorkflowFiles :
          LET r == load_workflows(workflows, file)
          IN  /\ workflows' = r.workflows
              /\ last_load' = [file |-> file, returned |-> r.returned, n |-> last_load.n + 1]
    /\ UNCHANGED <<match_args, match_result, match_calls>>
    /\ UNCHANGED <<agentVars, handlerVars, scriptVars, tasks>>

\* a call of match_workflow on the list loaded; match_calls keeps the calls
\* that returned
MatchCall ==
    /\ Len(match_calls) < MaxCalls
    /\ \E args \in RegistryArgs :
          LET result == match_workflow_call(workflows, args)
          IN  /\ match_args' = args
              /\ match_result' = result
              /\ match_calls' =
                     IF result = MatchRaised THEN match_calls
                     ELSE Append(match_calls,
                                 [registry |-> workflows, args |-> args, result |-> result])
    /\ UNCHANGED <<workflows, last_load>>
    /\ UNCHANGED <<agentVars, handlerVars, scriptVars, tasks>>

NextRegistry == ReloadWorkflows \/ MatchCall

SpecRegistry == InitRegistry /\ [][NextRegistry]_vars

(***************************************************************************)
(* One agent run: prompt_ai_agent, then the turns of agent_with_tools.     *)
(* The recursive call of agent_with_tools is the next turn; the events of  *)
(* the turns so far are prepended to what it returns.                      *)
(***************************************************************************)
InitAgent ==
    /\ MatchIdle
    /\ HandlerIdle
    /\ tasks = << >>
    /\ ScriptIdle
    /\ mcp_servers \in ServerConfigs
    /\ tools_net = "unset"
    /\ pc = "start"
    /\ available_tools = << >>
    /\ messages = << >>
    /\ ndjson_events = << >>
    /\ tool_calls = << >>
    /\ tool_index = 1
    /\ model_calls = << >>
    /\ invocations = << >>
    /\ rpc_log = << >>

\* prompt_ai_agent up to the call of agent_with_tools
PromptAiAgent ==
    /\ pc = "start"
    /\ UNCHANGED tasks
    /\ UNCHANGED scriptVars
    /\ \E net \in NetOutcomes :
          LET r == fetch_tools_list(mcp_servers, net)
          IN  /\ messages' = SeedMessages
              /\ rpc_log' = rpc_log \o r.posted
              /\ tools_net' = IF Len(r.posted) > 0 THEN net ELSE "unset"
              /\ available_tools' = r.value
              /\ pc' = IF r.raised THEN "raised" ELSE "model"
    /\ UNCHANGED <<matchVars, handlerVars, mcp_servers, ndjson_events, tool_calls, tool_index,
                   model_calls, invocations>>

\* agent_with_tools with available_tools None: the comprehension raises
AgentToolsNone ==
    /\ pc = "model"
    /\ UNCHANGED tasks
    /\ UNCHANGED scriptVars
    /\ available_tools = NoneValue
    /\ pc' = "raised"
    /\ UNCHANGED <<matchVars, handlerVars, mcp_servers, tools_net, available_tools, messages, ndjson_events,
                   tool_calls, tool_index, model_calls, invocations, rpc_log>>

\* the entry of model_calls for a completions.create call
ModelCallEntry(content, calls, failed) ==
    [n_messages |-> Len(messages), n_invocations |-> Len(invocations),
     n_events |-> Len(ndjson_events), with_tools |-> Len(available_tools) > 0, content |-> content,
     tool_calls |-> calls, failed |-> failed]

\* agent_with_tools: completions.create raises
ModelCallFails ==
    /\ pc = "model"
    /\ UNCHANGED tasks
    /\ UNCHANGED scriptVars
    /\ available_tools # NoneValue
    /\ Len(model_calls) < MaxModelCalls
    /\ model_calls' = Append(model_calls, ModelCallEntry(NoneStr, << >>, TRUE))
    /\ pc' = "raised"
    /\ UNCHANGED <<matchVars, handlerVars, mcp_servers, tools_net, available_tools, messages, ndjson_events,
                   tool_calls, tool_index, invocations, rpc_log>>

\* agent_with_tools: the completion and the branch on its tool calls
AgentTurn ==
    /\ pc = "model"
    /\ UNCHANGED tasks
    /\ UNCHANGED scriptVars
    /\ available_tools # NoneValue
    /\ Len(model_calls) < MaxModelCalls
    /\ \E content \in Contents,
          calls \in ToolCallLists(available_tools, Len(model_calls) + 1,
                                  MaxToolCalls - Len(invocations)) :
          LET assistant_response_content == ContentOrEmpty(content)
          IN  /\ model_calls' = Append(model_calls, ModelCallEntry(content, calls, FALSE))
              /\ ndjson_events' =
                     Append(ndjson_events, chat_text_event(assistant_response_content))
              /\ pc' = turn_branch(calls)
              /\ IF Len(calls) > 0
                 THEN /\ messages' =
                            Append(messages, assistant_msg(assistant_response_content, calls))
                      /\ tool_calls' = calls
                      /\ tool_index' = 1
                 ELSE UNCHANGED <<messages, tool_calls, tool_index>>
    /\ UNCHANGED <<matchVars, handlerVars, mcp_servers, tools_net, available_tools, invocations, rpc_log>>

\* agent_with_tools: one iteration of the loop over tool_calls
ToolCallStep ==
    /\ pc = "tools"
    /\ UNCHANGED tasks
    /\ UNCHANGED scriptVars
    /\ \E net \in NetOutcomes :
          LET tool_call == tool_calls[tool_index]
              tool_args == parse_tool_args(tool_call.arguments)
              r == execute_tool(mcp_servers, tool_call.name, tool_args, net)
          IN  /\ invocations' = Append(invocations,
                     [name |-> tool_call.name, arguments |-> tool_args,
                      tool_call_id |-> tool_call.id, net |-> net])
              /\ rpc_log' = rpc_log \o r.posted
              /\ IF r.raised
                 THEN /\ pc' = "raised"
                      /\ UNCHANGED <<messages, ndjson_events, tool_index>>
                 ELSE /\ messages' = Append(messages, tool_msg(tool_call, tool_args, r.value))
                      /\ ndjson_events' = Append(ndjson_events,
                             tool_result_event(tool_call, tool_args, r.value))
                      /\ tool_index' = tool_index + 1
                      /\ pc' = after_tool_call(tool_index, tool_calls)
    /\ UNCHANGED <<matchVars, handlerVars, mcp_servers, tools_net, available_tools, tool_calls, model_calls>>

NextAgent == PromptAiAgent \/ AgentToolsNone \/ ModelCallFails \/ AgentTurn \/ ToolCallStep

SpecAgent == InitAgent /\ [][NextAgent]_vars

(***************************************************************************)
(* The handling of deliveries: handle_message_event_async (behind          *)
(* handle_event_async, the one app.py schedules) and handle_message_event  *)
(* (behind handle_event).  Neither awaits anything after the request body  *)
(* is read, so a delivery is handled from start to end before the next;    *)
(* the steps below follow one delivery through the code.                   *)
(***************************************************************************)
Init ==
    /\ workflows \in HandlerRegistries
    /\ match_args = NoneValue
    /\ match_result = NoneValue
    /\ match_calls = << >>
    /\ last_load = NoneValue
    /\ AgentIdle
    /\ HandlerIdle
    /\ tasks = << >>
    /\ ScriptIdle

\* Leave with an exception going past the handlers' `except Exception`
Leave_uncaught(how) ==
    /\ h_pc' = "return"
    /\ outcome' = IF how = "error" THEN "raised" ELSE how

\* the handler returns with the outcome, leaving its other locals as they are;
\* "error" is the outcome of the `except Exception` blocks, which log
Leave(how) ==
    /\ h_pc' = "return"
    /\ outcome' = how

\* app.py handle_slack_events: the body is parsed, handle_event_async is
\* scheduled as a background task and the request is answered; a body that
\* is not JSON is answered with 500 and nothing is scheduled
HandleSlackEvents ==
    /\ h_pc = "idle"
    /\ UNCHANGED tasks
    /\ UNCHANGED scriptVars
    /\ ingress \in {"none", "error_500"}
    /\ \E body_is_json \in BOOLEAN :
          ingress' = IF body_is_json THEN "accepted" ELSE "error_500"
    /\ UNCHANGED <<matchVars, agentVars, processed_messages, h_pc, handlerLocals>>

\* what handle_event_async can meet before it dispatches on the event type
RequestChecks ==
    {"ok", "missing_headers", "bad_timestamp", "too_old", "unreadable_body",
     "invalid_signature", "url_verification", "other_event"}

\* handle_event_async, the background task, up to the call of
\* handle_message_event_async
HandleEventAsync ==
    /\ h_pc = "idle"
    /\ UNCHANGED tasks
    /\ UNCHANGED scriptVars
    /\ ingress = "accepted"
    /\ \E check \in RequestChecks :
          CASE check = "ok" ->
                   /\ ingress' = "verified"
                   /\ UNCHANGED <<h_pc, outcome>>
            [] check \in {"bad_timestamp", "unreadable_body"} ->
                   Leave("error") /\ UNCHANGED ingress
            [] check \in {"url_verification", "other_event"} ->
                   Leave("other_event") /\ UNCHANGED ingress
            [] OTHER ->
                   Leave("rejected") /\ UNCHANGED ingress
    /\ UNCHANGED <<matchVars, agentVars, processed_messages, event_data, lookup, workflow,
                   reaction, history, spawned, child, workflow_response, posted>>

\* handle_message_event_async up to the insertion of the key
HandleMessageEventAsync ==
    /\ h_pc = "idle"
    /\ UNCHANGED tasks
    /\ UNCHANGED scriptVars
    /\ ingress = "verified"
    /\ UNCHANGED ingress
    /\ \E ev \in Events :
          /\ event_data' = ev
          /\ IF Get(ev, "subtype", NoneStr) \in
                    {"bot_message", "message_changed", "message_deleted"}
             THEN Leave("ignored") /\ UNCHANGED processed_messages
             ELSE IF already_processed(message_key(ev), processed_messages)
             THEN Leave("already_processed") /\ UNCHANGED processed_messages
             ELSE /\ processed_messages' = mark_processed(processed_messages, message_key(ev))
                  /\ h_pc' = "identify"
                  /\ UNCHANGED outcome
    /\ UNCHANGED <<matchVars, agentVars, lookup, workflow, reaction, history, spawned,
                   child, workflow_response, posted>>

\* handle_message_event up to the cleanup of the processed keys
HandleMessageEvent ==
    /\ h_pc = "idle"
    /\ UNCHANGED tasks
    /\ UNCHANGED scriptVars
    /\ ingress \in {"none", "error_500"}
    /\ UNCHANGED ingress
    /\ \E ev \in Events :
          /\ event_data' = ev
          /\ IF "bot_id" \in DOMAIN ev
             THEN Leave("ignored") /\ UNCHANGED processed_messages
             ELSE IF Get(ev, "subtype", NoneStr) \in
                    {"bot_message", "message_changed", "message_deleted"}
             THEN Leave("ignored") /\ UNCHANGED processed_messages
             ELSE IF already_processed(message_key(ev), processed_messages)
             THEN Leave("already_processed") /\ UNCHANGED processed_messages
             ELSE /\ processed_messages' \in
                       cleanup_processed_messages(processed_messages \cup {message_key(ev)})
                  /\ h_pc' = "identify"
                  /\ UNCHANGED outcome
    /\ UNCHANGED <<matchVars, agentVars, lookup, workflow, reaction, history, spawned,
                   child, workflow_response, posted>>

\* both handlers from the app configuration to the call of process_message
Identify ==
    /\ h_pc = "identify"
    /\ UNCHANGED tasks
    /\ UNCHANGED scriptVars
    /\ UNCHANGED ingress
    /\ \E configured \in BOOLEAN, bot_user_id \in {NoneStr, BotUserId},
          channel_name \in ChannelNames, user_display_name \in UserNames :
          LET message_text == Get(event_data, "text", << >>) IN
          IF ~configured
          THEN Leave("not_configured") /\ UNCHANGED lookup
          ELSE IF event_data.user = bot_user_id
          THEN Leave("ignored") /\ UNCHANGED lookup
          ELSE IF "bot_id" \in DOMAIN event_data
          THEN Leave("ignored") /\ UNCHANGED lookup
          ELSE IF \E pattern \in bot_response_patterns : Contains(message_text, pattern)
          THEN Leave("ignored") /\ UNCHANGED lookup
          ELSE /\ lookup' = [channel_name |-> channel_name,
                             user_name |-> user_display_name,
                             is_app_mentioned |-> is_bot_mentioned(message_text, bot_user_id)]
               /\ h_pc' = "process"
               /\ UNCHANGED outcome
    /\ UNCHANGED <<matchVars, agentVars, processed_messages, event_data, workflow,
                   reaction, history, spawned, child, workflow_response, posted>>

\* process_message fetching the thread for every message
is_threaded_reply_always(message_data) == TRUE

\* the condition under which process_message fetches the thread
is_threaded_reply(message_data) ==
    /\ "thread_ts" \in DOMAIN message_data
    /\ "ts" \in DOMAIN message_data
    /\ message_data.thread_ts # message_data.ts

\* what conversations.replies returns for a thread that has messages
thread_messages == <<"m1", "m2">>

\* the history fetched and then left out of the payload
attach_history_never(message_data, conversation_history) == message_data

\* message_data['conversation_history'] = conversation_history
attach_history(message_data, conversation_history) ==
    message_data @@ ("conversation_history" :> conversation_history)

\* process_message up to the call of execute_workflow
ProcessMessage ==
    /\ h_pc = "process"
    /\ UNCHANGED tasks
    /\ UNCHANGED scriptVars
    /\ UNCHANGED ingress
    /\ LET found == match_workflow(workflows, event_data, lookup.channel_name,
                                   lookup.user_name, lookup.is_app_mentioned)
       IN  /\ workflow' = found
           /\ IF ~Truthy(found)
              THEN /\ h_pc' = "respond"
                   /\ UNCHANGED <<reaction, history, event_data, outcome>>
              ELSE \E reacted \in {"ok", "failed"} :
                   /\ reaction' = reacted
                   /\ IF is_threaded_reply(event_data)
                      THEN \E fetched \in {"messages", "empty", "error"} :
                           /\ history' = fetched
                           /\ CASE fetched = "error" ->
                                       Leave("error") /\ UNCHANGED event_data
                                [] fetched = "messages" ->
                                       /\ event_data' = attach_history(event_data,
                                                                         thread_messages)
                                       /\ h_pc' = "execute"
                                       /\ UNCHANGED outcome
                                [] OTHER ->
                                       /\ h_pc' = "execute"
                                       /\ UNCHANGED <<event_data, outcome>>
                      ELSE /\ h_pc' = "execute"
                           /\ UNCHANGED <<history, event_data, outcome>>
    /\ UNCHANGED <<matchVars, agentVars, processed_messages, lookup, spawned, child,
                   workflow_response, posted>>

\* execute_workflow, called by process_message
ExecuteWorkflow ==
    /\ h_pc = "execute"
    /\ UNCHANGED tasks
    /\ UNCHANGED scriptVars
    /\ UNCHANGED ingress
    /\ \E missing \in MissingFiles, observed \in ChildOutcomesOf(workflow, event_data) :
          LET r == execute_workflow(workflow, event_data, missing, observed)
          IN  /\ spawned' = r.spawns
              /\ child' = IF r.spawns = << >> THEN NoneValue ELSE observed
              /\ workflow_response' = r.response
    /\ h_pc' = "respond"
    /\ UNCHANGED <<matchVars, agentVars, processed_messages, event_data, lookup, workflow,
                   reaction, history, posted, outcome>>

\* both handlers after process_message returned
Respond ==
    /\ h_pc = "respond"
    /\ UNCHANGED tasks
    /\ UNCHANGED scriptVars
    /\ UNCHANGED ingress
    /\ posted' = IF Truthy(workflow_response)
                 THEN send_workflow_response(workflow_response)
                 ELSE << >>
    /\ Leave("success")
    /\ UNCHANGED <<matchVars, agentVars, processed_messages, event_data, lookup, workflow,
                   reaction, history, spawned, child, workflow_response>>

\* the handler has returned: its locals are gone
Return ==
    /\ h_pc = "return"
    /\ UNCHANGED tasks
    /\ UNCHANGED scriptVars
    /\ h_pc' = "idle"
    /\ ingress' = "none"
    /\ event_data' = NoneValue
    /\ lookup' = NoneValue
    /\ workflow' = NoneValue
    /\ reaction' = "none"
    /\ history' = "none"
    /\ spawned' = << >>
    /\ child' = NoneValue
    /\ workflow_response' = NoneValue
    /\ posted' = << >>
    /\ outcome' = "none"
    /\ UNCHANGED <<matchVars, agentVars, processed_messages>>

Next ==
    \/ HandleSlackEvents
    \/ HandleEventAsync
    \/ HandleMessageEventAsync
    \/ HandleMessageEvent
    \/ Identify
    \/ ProcessMessage
    \/ ExecuteWorkflow
    \/ Respond
    \/ Return

Spec == Init /\ [][Next]_vars

(***************************************************************************)
(* log_analyser_agent (agents.py) up to its call of agent_with_tools: the  *)
(* logs are measured in tokens and put into the message list.              *)
(***************************************************************************)
\* the characters of a log text: "a" is a token of its own, "b" goes into
\* the token of the letter before it, "w" is a character outside ASCII
\* that the encoding splits into two tokens
LogChars == {"a", "b", "w"}
LogTexts == StringsUpTo(LogChars, MaxLogLen)

\* len(enc.encode(text))
RECURSIVE encoded_length(_, _)
encoded_length(text, k) ==
    IF k = 0 THEN 0
    ELSE encoded_length(text, k - 1) +
         (CASE text[k] = "w" -> 2
            [] text[k] = "b" /\ k > 1 /\ text[k - 1] \in {"a", "b"} -> 0
            [] OTHER -> 1)

\* count_tokens: the length of the encoding, or -1 when tiktoken raises
count_tokens(text, encoding_loaded) ==
    IF encoding_loaded THEN encoded_length(text, Len(text)) ELSE -1

\* the 20000 of `count_logs_tokens>20000` and of `[:20000]`, scaled to the
\* texts of the model
token_budget == 3
truncated_length == 3

logs_prefix == <<"Logs start here\n\n">>

\* the content of the message log_analyser_agent appends
log_content(text, encoding_loaded) ==
    IF count_tokens(text, encoding_loaded) > token_budget
    THEN logs_prefix \o SubSeq(text, 1, IF Len(text) < truncated_length THEN Len(text)
                                        ELSE truncated_length)
    ELSE logs_prefix \o text

InitLogs ==
    /\ MatchIdle
    /\ AgentIdle
    /\ HandlerIdle
    /\ tasks = << >>
    /\ logs_data \in LogTexts
    /\ log_message = Pending
    /\ aggregator = "none"
    /\ agent_chat_response = << >>
    /\ slack_message_response = NoneValue

LogAnalyserAgent ==
    /\ log_message = Pending
    /\ UNCHANGED tasks
    /\ \E encoding_loaded \in BOOLEAN :
          log_message' = [role |-> "user", content |-> log_content(logs_data, encoding_loaded)]
    /\ UNCHANGED <<matchVars, agentVars, handlerVars, logs_data, aggregator,
                   agent_chat_response, slack_message_response>>

NextLogs == LogAnalyserAgent

SpecLogs == InitLogs /\ [][NextLogs]_vars

(***************************************************************************)
(* The aggregation of an event stream into the outbound message:           *)
(* agent_wrapper_fn (default_agent.py) and the main of a script            *)
(* (scripts/k8s_5xx_errors_tool.py).                                       *)
(***************************************************************************)
\* texts are sequences of pieces; the pieces of a message
ChatContents == {<< >>, <<"c1">>, <<"c2">>}
time_taken_str == <<"\n\n_Time taken: 1.00 seconds_">>
time_taken_event == [type |-> "time_taken", time_taken |-> time_taken_str]

\* the events agent_with_tools and the scripts emit
StreamEvents ==
    {chat_text_event(content) : content \in ChatContents}
    \cup {[type |-> "tool_result", tool_name |-> name, tool_config |-> "{args}",
           tool_result |-> result] :
             name \in {"t1", "t2"}, result \in {"result1", "result2"}}

\* what prompt_ai_agent can return
AgentStreams == UNION {[1..n -> StreamEvents] : n \in 0..MaxEvents}

\* what k8s_5xx_errors_tool returns: its own tool_result, then the one
\* chat_text of an agent run without tools
K8sStreams ==
    {<<[type |-> "tool_result", tool_name |-> "kubectl_5xx_investigation",
        tool_config |-> "{namespaces}", tool_result |-> result],
       chat_text_event(content)>> :
          result \in {"result1", "result2"}, content \in ChatContents}

\* the loop over the events: text and file_content after the first k events
RECURSIVE aggregate(_, _)
aggregate(events, k) ==
    IF k = 0 THEN [text |-> << >>, file_content |-> << >>]
    ELSE LET before == aggregate(events, k - 1)
             response == events[k]
         IN  CASE response.type = "chat_text" ->
                      [before EXCEPT !.text = @ \o response.content]
               [] response.type = "tool_result" ->
                      [text |-> before.text \o
                                <<"\n\nTool Call: ", response.tool_name,
                                  " Tool Arguments: ", response.tool_config,
                                  " result: in attached .txt file">>,
                       file_content |-> before.file_content \o
                                <<"\n\nTool Call:", response.tool_name,
                                  " Tool Arguments: ", response.tool_config,
                                  " result: ", response.tool_result>>]
               [] response.type = "time_taken" ->
                      [before EXCEPT !.text = @ \o response.time_taken]
               [] OTHER -> before

\* the message the aggregation is for
source_message == [ts |-> <<"1">>, channel |-> <<"C">>, user |-> <<"U">>, text |-> <<"a">>]

\* slack_message_response with file_content set whatever it holds
build_response_always(events) ==
    LET done == aggregate(events, Len(events))
    IN  child_response(source_message, done.text) @@ ("file_content" :> done.file_content)

\* slack_message_response, with file_content only when there is some
build_response(events) ==
    LET done == aggregate(events, Len(events))
        slack_response == child_response(source_message, done.text)
    IN  IF done.file_content # << >>
        THEN slack_response @@ ("file_content" :> done.file_content)
        ELSE slack_response

InitAggregate ==
    /\ MatchIdle
    /\ AgentIdle
    /\ HandlerIdle
    /\ tasks = << >>
    /\ logs_data = << >>
    /\ log_message = NoneValue
    /\ \/ aggregator = "agent_wrapper_fn" /\ agent_chat_response \in AgentStreams
       \/ aggregator = "k8s_5xx_errors_tool" /\ agent_chat_response \in K8sStreams
    /\ slack_message_response = Pending

\* agent_wrapper_fn after prompt_ai_agent has returned
AgentWrapperFn ==
    /\ aggregator = "agent_wrapper_fn"
    /\ UNCHANGED tasks
    /\ slack_message_response = Pending
    /\ agent_chat_response' = Append(agent_chat_response, time_taken_event)
    /\ slack_message_response' = build_response(agent_chat_response')
    /\ UNCHANGED <<matchVars, agentVars, handlerVars, logs_data, log_message, aggregator>>

\* main of k8s_5xx_errors_tool.py after k8s_5xx_errors_tool has returned
K8sMain ==
    /\ aggregator = "k8s_5xx_errors_tool"
    /\ UNCHANGED tasks
    /\ slack_message_response = Pending
    /\ slack_message_response' = build_response(agent_chat_response)
    /\ UNCHANGED <<matchVars, agentVars, handlerVars, logs_data, log_message, aggregator,
                   agent_chat_response>>

NextAggregate == AgentWrapperFn \/ K8sMain

SpecAggregate == InitAggregate /\ [][NextAggregate]_vars

(***************************************************************************)
(* Concurrent deliveries.  handle_slack_events schedules one background    *)
(* task per request; the tasks are coroutines of one event loop, which     *)
(* switches between them only where one awaits something that suspends.    *)
(* handle_event_async has one such point, `await request.body()`; from     *)
(* there to its end, through handle_message_event_async, process_message   *)
(* and send_workflow_response, every call is synchronous.                  *)
(***************************************************************************)
Tasks == 1..MaxTasks

NoTask == [pc |-> "none", key |-> << >>, at_start |-> {}, passed |-> FALSE]

\* the set the membership test would read had it been taken when the task
\* started
seen_set_at_start(at_start, at_check) == at_start

\* the set the membership test of line 188 reads: self.processed_messages as
\* it is when the test runs
seen_set(at_start, at_check) == at_check

InitConcurrent ==
    /\ MatchIdle
    /\ AgentIdle
    /\ ScriptIdle
    /\ processed_messages = {}
    /\ h_pc = "idle"
    /\ ingress = "none"
    /\ LocalsCleared
    /\ tasks = [t \in Tasks |-> NoTask]

\* handle_slack_events: the request is answered and its task scheduled; a
\* task that has ended makes room for the task of a later request
ScheduleTask(t) ==
    /\ tasks[t].pc \in {"none", "done"}
    /\ \E triple \in Triples :
          tasks' = [tasks EXCEPT ![t] = [pc |-> "scheduled", key |-> message_key(triple),
                                         at_start |-> {}, passed |-> FALSE]]
    /\ UNCHANGED <<matchVars, agentVars, handlerVars, scriptVars>>

\* handle_event_async up to `await request.body()`
TaskStart(t) ==
    /\ tasks[t].pc = "scheduled"
    /\ \E headers_ok \in BOOLEAN :
          tasks' = [tasks EXCEPT ![t].pc = IF headers_ok THEN "awaiting_body" ELSE "done",
                                 ![t].at_start = processed_messages]
    /\ UNCHANGED <<matchVars, agentVars, handlerVars, scriptVars>>

\* handle_event_async from the body to its end: the signature, the dispatch
\* and all of handle_message_event_async
TaskResume(t) ==
    /\ tasks[t].pc = "awaiting_body"
    /\ \E signature_ok \in BOOLEAN :
          IF ~signature_ok
          THEN /\ tasks' = [tasks EXCEPT ![t].pc = "done"]
               /\ UNCHANGED processed_messages
          ELSE IF already_processed(tasks[t].key,
                                    seen_set(tasks[t].at_start, processed_messages))
          THEN /\ tasks' = [tasks EXCEPT ![t].pc = "done"]
               /\ UNCHANGED processed_messages
          ELSE /\ processed_messages' = processed_messages \cup {tasks[t].key}
               /\ tasks' = [tasks EXCEPT ![t].pc = "done", ![t].passed = TRUE]
    /\ UNCHANGED <<matchVars, agentVars, scriptVars, h_pc, ingress, handlerLocals>>

NextConcurrent ==
    \E t \in Tasks : ScheduleTask(t) \/ TaskStart(t) \/ TaskResume(t)

SpecConcurrent == InitConcurrent /\ [][NextConcurrent]_vars

(***************************************************************************)
(* C1.                                                                     *)
(***************************************************************************)
\* the predicates a workflow configures, as the specification states them
MentionHolds(w, a) ==
    ("app_mention_required" \in DOMAIN w /\ w.app_mention_required) => a.is_app_mentioned
ChannelHolds(w, a) ==
    "channel_name" \in DOMAIN w =>
        (w.channel_name = star \/ Lower(w.channel_name) = Lower(a.channel_name))
UserHolds(w, a) ==
    "user_name" \in DOMAIN w =>
        (w.user_name = star \/ Lower(w.user_name) = Lower(a.user_name))
ContentHolds(w, a) ==
    ("wildcard" \in DOMAIN w /\ w.wildcard # <<>>) =>
        LET text == IF "text" \in DOMAIN a.message_data THEN a.message_data.text ELSE <<>>
            glob == wildcard_to_regex(w.wildcard)
            anchored == <<"\\", "b">> \o glob \o <<"\\", "b">>
        IN  IF "*" \in CharsOf(w.wildcard)
            THEN ~re_error(glob) /\ re_search(glob, text)
            ELSE ~re_error(anchored) /\ re_search(anchored, text)
Qualifies(w, a) ==
    MentionHolds(w, a) /\ ChannelHolds(w, a) /\ UserHolds(w, a) /\ ContentHolds(w, a)
QualifyingIndexes(L, a) == {k \in 1..Len(L) : Qualifies(L[k], a)}

\* C1: match_workflow returns the workflow of the smallest list index whose
\* mention, channel, user and content predicates all hold for the event, and
\* None exactly when no workflow of the list qualifies.
C1_FirstQualifying ==
    match_result # Pending =>
        LET Q == QualifyingIndexes(workflows, match_args)
        IN  IF Q = {} THEN match_result = NoneValue
            ELSE /\ match_result # NoneValue
                 /\ \E k \in Q : /\ \A j \in Q : k <= j
                                 /\ match_result = workflows[k]

\* a call on a list of two qualifying workflows that differ, and a call that
\* matches nothing on a non-empty list
C1_Witness ==
    /\ Len(workflows) = 2
    /\ QualifyingIndexes(workflows, match_args) = {1, 2}
    /\ workflows[1] # workflows[2]
    /\ match_result = workflows[1]

(***************************************************************************)
(* C4 - C9: the agent run.                                                 *)
(***************************************************************************)
RunEnded == pc \in {"done", "raised"}

\* C4: a run makes at most a fixed number of model calls and then ends, even
\* when every completion asks for a tool: once the run has made that many
\* calls (MaxModelCalls, whichever value it is given) it has ended.
C4_ModelCallsBounded == Len(model_calls) >= MaxModelCalls => RunEnded

\* the tool calls of the completion of model call k
CallsOf(k) == model_calls[k].tool_calls

\* C5: a completion with N >= 1 tool calls is followed, before the next model
\* call, by exactly N execute_tool calls in the order of the tool calls, and
\* the next model call gets N + 1 more messages: the assistant message and
\* then N tool messages.
C5_TurnWithToolCalls ==
    \A k \in 1..(Len(model_calls) - 1) :
        LET N == Len(CallsOf(k))
            m == model_calls[k].n_messages
            v == model_calls[k].n_invocations
        IN  /\ N >= 1
            /\ model_calls[k + 1].n_invocations = v + N
            /\ \A i \in 1..N : /\ invocations[v + i].tool_call_id = CallsOf(k)[i].id
                               /\ invocations[v + i].name = CallsOf(k)[i].name
            /\ model_calls[k + 1].n_messages = m + N + 1
            /\ messages[m + 1].role = "assistant"
            /\ \A i \in 1..N : messages[m + 1 + i].role = "tool"

\* a second model call after a completion that asked for two different tools
C5_Witness ==
    /\ Len(model_calls) >= 2
    /\ Len(CallsOf(1)) = 2
    /\ CallsOf(1)[1].name # CallsOf(1)[2].name

\* C6: a completion with no tool call adds exactly one chat_text event and no
\* execute_tool call, is the last model call of the run, and the run returns.
C6_TurnWithoutToolCalls ==
    \A k \in 1..Len(model_calls) :
        (~model_calls[k].failed /\ Len(CallsOf(k)) = 0) =>
            /\ k = Len(model_calls)
            /\ pc = "done"
            /\ Len(ndjson_events) = model_calls[k].n_events + 1
            /\ ndjson_events[Len(ndjson_events)] =
                   chat_text_event(ContentOrEmpty(model_calls[k].content))
            /\ Len(invocations) = model_calls[k].n_invocations
            /\ Len(messages) = model_calls[k].n_messages

\* a run whose second completion asked for no tool
C6_Witness ==
    /\ Len(model_calls) = 2
    /\ ~model_calls[2].failed
    /\ Len(CallsOf(2)) = 0
    /\ pc = "done"

\* the tool messages that answer call id c
AnswersTo(c) == {j \in 1..Len(messages) : /\ messages[j].role = "tool"
                                          /\ messages[j].tool_call_id = c}

\* C7: when the model is about to be called, every tool call of every
\* assistant message of the list has exactly one tool message with its id,
\* after that assistant message and before the next assistant message.
C7_ToolCallsAnswered ==
    pc = "model" =>
        \A i \in 1..Len(messages) :
            messages[i].role = "assistant" =>
                \A n \in 1..Len(messages[i].tool_calls) :
                    LET answers == AnswersTo(messages[i].tool_calls[n].id)
                    IN  /\ Cardinality(answers) = 1
                        /\ \A j \in answers :
                              /\ i < j
                              /\ \A x \in (i + 1)..j : messages[x].role # "assistant"

\* the model is about to be called with two assistant messages in the list,
\* the first of them with two tool calls
C7_Witness ==
    /\ pc = "model"
    /\ Len(model_calls) = 2
    /\ Len(CallsOf(1)) = 2
    /\ Len(CallsOf(2)) = 1
    /\ Len(messages) = 7

\* C8: an execute_tool call that meets an unreachable server or a non-2xx
\* response raises nothing: its tool message and its tool_result event are
\* appended and the run goes on.
C8_ToolFailureContained ==
    \A k \in 1..Len(invocations) :
        invocations[k].net \in {"unreachable", "http_error"} =>
            /\ AnswersTo(invocations[k].tool_call_id) # {}
            /\ \E e \in 1..Len(ndjson_events) :
                  /\ ndjson_events[e].type = "tool_result"
                  /\ ndjson_events[e].tool_call_id = invocations[k].tool_call_id
            /\ pc = "raised" => (model_calls # << >> /\ model_calls[Len(model_calls)].failed)

\* C9: with no server configured, or the server unreachable or answering a
\* non-2xx status, fetch_tools_list gives the empty tool set and the run goes
\* on without tools: it is not ended by the discovery, and its model call is
\* made without tools.
C9_DiscoveryDegrades ==
    (pc # "start" /\ (Len(mcp_servers) = 0 \/ tools_net \in {"unreachable", "http_error"})) =>
        /\ available_tools = << >>
        /\ pc = "raised" => (model_calls # << >> /\ model_calls[Len(model_calls)].failed)
        /\ \A k \in 1..Len(model_calls) : ~model_calls[k].with_tools

(***************************************************************************)
(* C2, C3, C10: the handling of one delivery.                              *)
(***************************************************************************)
\* C2: a delivery whose (ts, channel, user) key is in processed_messages when
\* it arrives is a no-op: the handler returns at once, process_message is not
\* called (no workflow matched, no child spawned, no response), nothing is
\* posted and the set of keys stays as it is.
C2_RedeliveryNoOp ==
    [][(h_pc = "idle" /\ event_data' # NoneValue) =>
          (message_key(event_data') \in processed_messages =>
              /\ h_pc' = "return"
              /\ workflow' = NoneValue
              /\ spawned' = << >>
              /\ workflow_response' = NoneValue
              /\ posted' = << >>
              /\ processed_messages' = processed_messages)]_vars

\* the second delivery of an event that a workflow of the registry matches,
\* with nothing in the event that would have it ignored before the key is
\* looked up
C2_Witness ==
    /\ outcome = "already_processed"
    /\ message_key(event_data) \in processed_messages
    /\ workflows # << >>
    /\ event_data.text = <<"a">>
    /\ DOMAIN event_data = {"type", "ts", "channel", "user", "text"}

\* what process_message hands to match_workflow
HandlerArgs ==
    [message_data |-> event_data, channel_name |-> lookup.channel_name,
     user_name |-> lookup.user_name, is_app_mentioned |-> lookup.is_app_mentioned]

\* C3: one delivery spawns at most one child process, and the workflow it is
\* spawned for is the first workflow of the registry that qualifies for the
\* event, however many qualify.
C3_AtMostOneDispatch ==
    /\ Len(spawned) <= 1
    /\ spawned # << >> =>
          LET Q == QualifyingIndexes(workflows, HandlerArgs)
          IN  \E k \in Q : /\ \A j \in Q : k <= j
                           /\ workflow = workflows[k]

\* a delivery that two workflows qualify for, with one child spawned for it
C3_Witness ==
    /\ Len(spawned) = 1
    /\ QualifyingIndexes(workflows, HandlerArgs) = {1, 2}
    /\ workflow = workflows[1]

\* C10: when the child of a workflow exits with a non-zero code, whatever it
\* wrote, execute_workflow returns None and the handler posts nothing.
C10_NonZeroExitSilent ==
    (spawned # << >> /\ ~child.timed_out /\ child.returncode # 0) =>
        /\ workflow_response = NoneValue
        /\ posted = << >>

\* a handler that has returned after its child exited with code 1, having
\* written a well-formed response
C10_Witness ==
    /\ h_pc = "return"
    /\ spawned # << >>
    /\ ~child.timed_out
    /\ child.returncode = 1
    /\ json_loads(child.stdout).ok

(***************************************************************************)
(* C11, C12: what the executor makes of the child's end.                   *)
(***************************************************************************)
\* C11: when the child runs past its timeout (30 s for a script, 60 s for the
\* prompt executor), the execute call returns None, nothing is posted, and
\* the call has spawned exactly one child: the run is not repeated.
C11_TimeoutNotRetried ==
    (spawned # << >> /\ child.timed_out) =>
        /\ workflow_response = NoneValue
        /\ posted = << >>
        /\ Len(spawned) = 1
        /\ spawned[1].timeout =
              IF spawned[1].program = <<"prompt_executor.py">> THEN 60 ELSE 30

\* a handler that has returned after the child of a script-driven workflow
\* timed out
C11_Witness ==
    /\ h_pc = "return"
    /\ spawned # << >>
    /\ child.timed_out
    /\ spawned[1].program = <<"scripts", "s.py">>

\* C12: the last line of the child's standard output decides the result: when
\* the child exits with 0 and that line is a JSON object, the execute call
\* returns the object whatever came on the lines before it; when that line
\* is not JSON the call returns None and nothing is posted.
C12_FinalLineDecides ==
    (spawned # << >> /\ ~child.timed_out /\ child.returncode = 0
        /\ child.stdout # << >>) =>
        LET final == child.stdout[Len(child.stdout)]
        IN  IF final.kind = "json"
            THEN workflow_response = final.value
            ELSE workflow_response = NoneValue /\ posted = << >>

(***************************************************************************)
(* C13 - C15: the content pattern.                                         *)
(***************************************************************************)
\* the glob reading of a pattern: `*` is any run of characters, `?` any one
\* character, every other character itself in either case
RECURSIVE GlobMatches(_, _)
GlobMatches(glob, text) ==
    IF glob = << >> THEN text = << >>
    ELSE IF Head(glob) = "*"
         THEN \E k \in 0..Len(text) :
                  GlobMatches(Tail(glob), SubSeq(text, k + 1, Len(text)))
         ELSE /\ text # << >>
              /\ Head(glob) = "?" \/ LowerChar(Head(glob)) = LowerChar(Head(text))
              /\ GlobMatches(Tail(glob), Tail(text))

\* text[i..j] starts and ends where a word starts or ends
AtWordEdges(text, i, j) ==
    LET word(k) == k >= 1 /\ k <= Len(text) /\ IsWordChar(text[k])
    IN  /\ word(i - 1) # word(i)
        /\ word(j) # word(j + 1)

\* text[i..j] is a run of word characters with none before and none after
IsWholeWord(text, i, j) ==
    /\ i <= j
    /\ \A k \in i..j : IsWordChar(text[k])
    /\ i > 1 => ~IsWordChar(text[i - 1])
    /\ j < Len(text) => ~IsWordChar(text[j + 1])

\* patterns that are globs and nothing more
IsPlainGlob(pattern) ==
    /\ pattern # << >>
    /\ CharsOf(pattern) \cap {"(", ")", ".", "\\"} = {}
IsWord(pattern) == pattern # << >> /\ \A k \in 1..Len(pattern) : IsWordChar(pattern[k])

\* the calls C13 is about: the first workflow of the list has a glob for its
\* content pattern and its other predicates hold, so that it is returned
\* exactly when its pattern matches the text
C13_Case ==
    /\ match_result # Pending
    /\ Len(workflows) >= 1
    /\ "text" \in DOMAIN match_args.message_data
    /\ "wildcard" \in DOMAIN workflows[1]
    /\ IsPlainGlob(workflows[1].wildcard)
    /\ MentionHolds(workflows[1], match_args)
    /\ ChannelHolds(workflows[1], match_args)
    /\ UserHolds(workflows[1], match_args)

\* C13: a pattern without `*` matches a text exactly where the pattern occurs
\* between word edges, which for a pattern that is a word means as a whole
\* word of the text; a pattern with `*` matches wherever it occurs.
C13_WordAnchoring ==
    C13_Case =>
        LET pattern == workflows[1].wildcard
            text == match_args.message_data.text
            spans == {<<i, j>> \in (1..(Len(text) + 1)) \X (0..Len(text)) :
                         j >= i - 1 /\ GlobMatches(pattern, SubSeq(text, i, j))}
        IN  IF "*" \in CharsOf(pattern)
            THEN (match_result = workflows[1]) <=> (spans # {})
            ELSE /\ (match_result = workflows[1]) <=>
                        (\E s \in spans : AtWordEdges(text, s[1], s[2]))
                 /\ IsWord(pattern) =>
                        ((match_result = workflows[1]) <=>
                            (\E s \in spans : IsWholeWord(text, s[1], s[2])))

\* a call where the pattern "a", alone in the registry, meets the text "aa":
\* the pattern occurs in the text, but not as a word of it
C13_Witness ==
    /\ C13_Case
    /\ workflows = << [name |-> "word", wildcard |-> <<"a">>, action_prompt |-> "p.md"] >>
    /\ match_args.message_data.text = <<"a", "a">>
    /\ match_result = NoneValue

\* C14: a workflow that gives its content pattern under `regex` is returned
\* only for events whose text the regex matches.
C14_RegexRespected ==
    match_result # Pending =>
        \A k \in 1..Len(workflows) :
            ("regex" \in DOMAIN workflows[k] /\ match_result = workflows[k]) =>
                /\ ~re_error(workflows[k].regex)
                /\ re_search(workflows[k].regex, Get(match_args.message_data, "text", << >>))

\* the workflows of the list whose content pattern does not compile
Malformed ==
    {k \in 1..Len(workflows) :
        /\ Get(workflows[k], "wildcard", << >>) # << >>
        /\ re_error(compiled_pattern(workflows[k]))}

\* C15: a workflow whose content pattern does not compile is never returned
\* and does not end the evaluation: the result is the first workflow, among
\* those whose pattern compiles, that qualifies for the event, and None only
\* when there is none.
C15_MalformedSkipped ==
    match_result # Pending =>
        LET Q == {k \in (1..Len(workflows)) \ Malformed : Qualifies(workflows[k], match_args)}
        IN  /\ \A k \in Malformed : match_result # workflows[k]
            /\ IF Q = {} THEN match_result = NoneValue
               ELSE \E k \in Q : /\ \A j \in Q : k <= j
                                 /\ match_result = workflows[k]

\* a workflow with the pattern "(" ahead of one that qualifies: the second is
\* returned
C15_Witness ==
    /\ Len(workflows) = 2
    /\ Malformed = {1}
    /\ Qualifies(workflows[2], match_args)
    /\ match_result = workflows[2]

(***************************************************************************)
(* C16: the side effects of process_message.                               *)
(***************************************************************************)
\* C16: the child of a matched event is spawned after add_reaction was
\* called, and for a threaded reply after the thread history was fetched,
\* with the messages fetched in the child's payload; while no workflow is
\* matched there is no reaction, no fetch and no child.
C16_SideEffectsBeforeDispatch ==
    [][/\ (spawned = << >> /\ spawned' # << >>) =>
              /\ reaction # "none"
              /\ is_threaded_reply(event_data) =>
                    /\ history \in {"messages", "empty"}
                    /\ history = "messages" =>
                          /\ "conversation_history" \in DOMAIN spawned'[1].payload
                          /\ spawned'[1].payload.conversation_history = thread_messages
              /\ ~is_threaded_reply(event_data) => history = "none"
       /\ ~Truthy(workflow') =>
              /\ reaction' = "none"
              /\ history' = "none"
              /\ spawned' = << >>]_vars

\* the child of a prompt-driven workflow spawned for a threaded reply whose
\* thread has messages
C16_Witness ==
    /\ spawned # << >>
    /\ is_threaded_reply(event_data)
    /\ history = "messages"
    /\ reaction = "ok"
    /\ spawned[1].program = <<"prompt_executor.py">>

(***************************************************************************)
(* C17: failures stay inside the background task.                          *)
(***************************************************************************)
\* the outcomes that are failures: an exception caught and logged, a request
\* turned away, a missing app configuration
FailureOutcomes == {"error", "rejected", "not_configured"}

\* C17: whatever fails while handle_event_async handles a request, no
\* exception leaves it: the handling ends with a logged failure and nothing
\* posted, or goes on without the part that failed; and the endpoint's
\* answer, given before, stays "accepted" until the handling has returned.
C17_FailuresContained ==
    [][/\ outcome' # "raised"
       /\ (ingress' \in {"accepted", "verified"} /\ outcome' \in FailureOutcomes) =>
              (h_pc' = "return" /\ posted' = << >> /\ spawned' = << >>)
       /\ ingress \in {"accepted", "verified"} =>
              \/ ingress' \in {"accepted", "verified"}
              \/ h_pc = "return" /\ ingress' = "none"]_vars

\* a handling where the fetch of the thread history raised, after the
\* endpoint had answered
C17_Witness ==
    /\ ingress = "verified"
    /\ history = "error"
    /\ outcome = "error"
    /\ h_pc = "return"

(***************************************************************************)
(* C18: a failed model call.                                               *)
(***************************************************************************)
\* C18: when a completion call fails, the run still ends by returning its
\* events, the last of them a text that tells of the failure, so that the
\* script around it has a message to send to the channel.
C18_ModelFailureSurfaced ==
    \A k \in 1..Len(model_calls) :
        model_calls[k].failed =>
            /\ pc = "done"
            /\ Len(ndjson_events) > model_calls[k].n_events
            /\ ndjson_events[Len(ndjson_events)].type = "chat_text"

(***************************************************************************)
(* C19: the token budget of the logs.                                      *)
(***************************************************************************)
\* the logs as they are in the message, after the heading
InsertedLogs == SubSeq(log_message.content, Len(logs_prefix) + 1, Len(log_message.content))

\* C19: the logs inserted into the message list are never more than the token
\* budget long: logs within the budget are inserted as they are, longer ones
\* are cut to it.
C19_LogsWithinBudget ==
    log_message # Pending /\ log_message # NoneValue =>
        /\ encoded_length(InsertedLogs, Len(InsertedLogs)) <= token_budget
        /\ encoded_length(logs_data, Len(logs_data)) <= token_budget =>
              InsertedLogs = logs_data

(***************************************************************************)
(* C20: the aggregated text.                                               *)
(***************************************************************************)
\* the events the script got from the agent or tool function
ReturnedEvents ==
    SelectSeq(agent_chat_response, LAMBDA ev : ev.type \in {"chat_text", "tool_result"})

\* the fragment of the text that stands for an event
Fragment(ev) ==
    IF ev.type = "chat_text" THEN ev.content
    ELSE <<"\n\nTool Call: ", ev.tool_name, " Tool Arguments: ", ev.tool_config,
           " result: in attached .txt file">>

RECURSIVE Fragments(_)
Fragments(events) ==
    IF events = << >> THEN << >> ELSE Fragment(Head(events)) \o Fragments(Tail(events))

\* C20: the text of the response is the fragments of the events in stream
\* order, the content of a chat_text and a short reference for a tool_result,
\* and then the timing annotation; a tool's result is in file_content only.
C20_AggregatedText ==
    slack_message_response # Pending /\ slack_message_response # NoneValue =>
        /\ slack_message_response.text = Fragments(ReturnedEvents) \o time_taken_str
        /\ \A k \in 1..Len(ReturnedEvents) :
              ReturnedEvents[k].type = "tool_result" =>
                  /\ ReturnedEvents[k].tool_result \notin CharsOf(slack_message_response.text)
                  /\ "file_content" \in DOMAIN slack_message_response
                  /\ ReturnedEvents[k].tool_result \in
                         CharsOf(slack_message_response.file_content)

(***************************************************************************)
(* C21: the attachment.                                                    *)
(***************************************************************************)
\* C21: the response has a file_content field exactly when the stream holds
\* a tool_result event, and the field is then not empty.
C21_AttachmentIffToolResult ==
    slack_message_response # Pending /\ slack_message_response # NoneValue =>
        /\ ("file_content" \in DOMAIN slack_message_response) <=>
              (\E k \in 1..Len(agent_chat_response) :
                   agent_chat_response[k].type = "tool_result")
        /\ "file_content" \in DOMAIN slack_message_response =>
              slack_message_response.file_content # << >>

\* agent_wrapper_fn has aggregated a stream of chat_text events only, one of
\* them with content: the response has a text and no file_content
C21_Witness ==
    /\ aggregator = "agent_wrapper_fn"
    /\ slack_message_response # Pending
    /\ Len(agent_chat_response) >= 2
    /\ \A k \in 1..Len(agent_chat_response) : agent_chat_response[k].type # "tool_result"
    /\ agent_chat_response[1].content # << >>
    /\ "file_content" \notin DOMAIN slack_message_response

(***************************************************************************)
(* C22: where the outbound message goes.                                   *)
(***************************************************************************)
\* the thread a response to the event belongs to
ThreadOf(ev) == IF "thread_ts" \in DOMAIN ev THEN ev.thread_ts ELSE ev.ts

\* C22: when the child of the matched workflow has succeeded, every message
\* posted for the event has a text, goes to the channel of the event and
\* into the thread of the event: thread_ts when the event has one, else ts.
C22_RoutedToSource ==
    (h_pc = "return" /\ spawned # << >> /\ workflow_response # NoneValue) =>
        \A k \in 1..Len(posted) :
            /\ posted[k].text # ""
            /\ posted[k].channel = event_data.channel
            /\ "thread_ts" \in DOMAIN posted[k]
            /\ posted[k].thread_ts = ThreadOf(event_data)

(***************************************************************************)
(* C23: concurrent deliveries of one triple.                               *)
(***************************************************************************)
\* C23: of the tasks that handle deliveries of one (ts, channel, user)
\* triple, however their steps interleave, at most one passes the seen-check
\* and goes on to process_message.
C23_AtMostOnePasses ==
    \A t1, t2 \in Tasks :
        (t1 # t2 /\ tasks # << >> /\ tasks[t1].key = tasks[t2].key) =>
            ~(tasks[t1].passed /\ tasks[t2].passed)

\* two tasks for the same triple that were both waiting for their body
\* before either had inserted the key; both have ended and one has passed
C23_Witness ==
    /\ tasks # << >>
    /\ tasks[1].pc = "done" /\ tasks[2].pc = "done"
    /\ tasks[1].key = tasks[2].key
    /\ tasks[1].key \notin tasks[1].at_start
    /\ tasks[2].key \notin tasks[2].at_start
    /\ tasks[1].passed # tasks[2].passed

(***************************************************************************)
(* C24, C25: the size of the set and its eviction.                         *)
(***************************************************************************)
\* C24: whatever requests handle_event_async has handled, the set holds at
\* most max_processed_messages keys and the one just inserted.
C24_SetBounded ==
    tasks # << >> => Cardinality(processed_messages) <= max_processed_messages + 1

\* C25: an eviction removes the keys that were inserted first; in particular
\* the key of the delivery that set the eviction off, the last one inserted,
\* is still in the set after it.
C25_EvictsOldest ==
    [][(/\ h_pc = "idle"
        /\ h_pc' = "identify"
        /\ Cardinality(processed_messages') <= Cardinality(processed_messages)) =>
           message_key(event_data') \in processed_messages']_vars

(***************************************************************************)
(* C26 - C28: the turns of an agent run.                                   *)
(***************************************************************************)
\* C26: a run that has returned has made a model call, its last, whose
\* completion asked for no tool and whose chat_text is the last event of the
\* stream; every model call before it asked for a tool, and no call that
\* asked for a tool is the last of a run that has returned.
C26_ReturnsAfterToolFreeTurn ==
    pc = "done" =>
        LET last == Len(model_calls)
        IN  /\ last >= 1
            /\ ~model_calls[last].failed
            /\ Len(CallsOf(last)) = 0
            /\ ndjson_events # << >>
            /\ ndjson_events[Len(ndjson_events)] =
                   chat_text_event(ContentOrEmpty(model_calls[last].content))
            /\ \A k \in 1..(last - 1) : Len(CallsOf(k)) >= 1

\* a run that has returned after two turns with tool calls and a third
\* without
C26_Witness ==
    /\ pc = "done"
    /\ Len(model_calls) = 3
    /\ Len(CallsOf(1)) >= 1
    /\ Len(CallsOf(2)) >= 1
    /\ Len(invocations) >= 2

\* the stream of a run that has returned, turn by turn
StreamInOrder ==
    /\ \A k \in 1..Len(model_calls) :
          LET at == model_calls[k].n_events
              N == Len(CallsOf(k))
          IN  /\ ndjson_events[at + 1] =
                     chat_text_event(ContentOrEmpty(model_calls[k].content))
              /\ \A i \in 1..N :
                    /\ ndjson_events[at + 1 + i].type = "tool_result"
                    /\ ndjson_events[at + 1 + i].tool_call_id = CallsOf(k)[i].id
                    /\ ndjson_events[at + 1 + i].tool_name = CallsOf(k)[i].name
              /\ IF k < Len(model_calls)
                 THEN model_calls[k + 1].n_events = at + 1 + N
                 ELSE Len(ndjson_events) = at + 1 + N
    /\ Cardinality({e \in 1..Len(ndjson_events) : ndjson_events[e].type = "tool_result"})
           = Len(invocations)

\* C27: the stream a run returns holds, turn after turn, the chat_text of the
\* turn and then one tool_result per tool call of the turn in their order,
\* as many tool_result events as execute_tool calls were made; and every
\* step of a run leaves the messages it found in the list, in place.
C27_StreamChronological ==
    [][/\ pc' = "done" => StreamInOrder'
       /\ Len(messages') >= Len(messages)
       /\ SubSeq(messages', 1, Len(messages)) = messages]_vars

\* a run that has returned a stream of four events: the chat_text and the
\* two tool_result events of its first turn, and the chat_text of its second
C27_Witness ==
    /\ pc = "done"
    /\ Len(model_calls) = 2
    /\ Len(CallsOf(1)) = 2
    /\ Len(ndjson_events) = 4
    /\ Len(messages) = 5

\* the tool call an invocation was made for
CallOf(inv) == CallsOf(inv.tool_call_id[1])[inv.tool_call_id[2]]

\* C28: a tool call whose arguments are not valid JSON is invoked with the
\* empty argument object, and the turn goes on past it exactly as for any
\* other call: unless the tool server cannot be reached, the call gets its
\* tool message and its tool_result event, both carrying the empty object.
C28_MalformedArgumentsDegrade ==
    \A k \in 1..Len(invocations) :
        ~CallOf(invocations[k]).arguments.json =>
            /\ invocations[k].arguments = EmptyDict
            /\ invocations[k].name = CallOf(invocations[k]).name
            /\ invocations[k].net # "unreachable" =>
                  /\ \E m \in AnswersTo(invocations[k].tool_call_id) :
                        messages[m].content.arguments = EmptyDict
                  /\ \E e \in 1..Len(ndjson_events) :
                        /\ ndjson_events[e].type = "tool_result"
                        /\ ndjson_events[e].tool_call_id = invocations[k].tool_call_id
                        /\ ndjson_events[e].tool_config = EmptyDict

\* a run that has returned after a turn whose first call had arguments that
\* do not parse and whose second call was made after it
C28_Witness ==
    /\ pc = "done"
    /\ Len(invocations) >= 2
    /\ ~CallOf(invocations[1]).arguments.json
    /\ invocations[1].net = "ok"
    /\ invocations[2].tool_call_id[1] = invocations[1].tool_call_id[1]
    /\ CallOf(invocations[2]).arguments.json

(***************************************************************************)
(* C29, C30: the requests of the tool registry client.                     *)
(***************************************************************************)
\* the configured servers that advertise a tool of that name
ServersOf(tool_name) ==
    {j \in 1..Len(mcp_servers) :
        \E i \in 1..Len(ToolsOf(mcp_servers[j])) : ToolsOf(mcp_servers[j])[i].name = tool_name}

\* C29: with more than one server configured, every tools/call request goes
\* to a server that advertises the tool it names, and a discovery that was
\* answered gives the tools of every configured server.
C29_RoutedByToolName ==
    Len(mcp_servers) > 1 =>
        /\ \A i \in 1..Len(rpc_log) :
              rpc_log[i].method = "tools/call" =>
                  \E j \in ServersOf(rpc_log[i].params.name) :
                      rpc_log[i].server = mcp_servers[j]
        /\ (pc # "start" /\ tools_net = "ok") =>
              \A j \in 1..Len(mcp_servers) :
                  \A i \in 1..Len(ToolsOf(mcp_servers[j])) :
                      \E a \in 1..Len(available_tools) :
                          available_tools[a] = ToolsOf(mcp_servers[j])[i]

\* C30: the ids of the requests the client has posted are strictly
\* increasing in the order of posting.
C30_RequestIdsIncrease ==
    \A i, j \in 1..Len(rpc_log) : i < j => rpc_log[i].id < rpc_log[j].id

(***************************************************************************)
(* C31, C32: the filters of match_workflow and its purity.                 *)
(***************************************************************************)
\* a workflow without one of its keys
Without(w, key) == [k \in DOMAIN w \ {key} |-> w[k]]

\* the workflow passes the loop body for the arguments of the call
PassesFor(w, a) ==
    workflow_passes(w, Get(a.message_data, "text", <<>>), a.channel_name, a.user_name,
                    a.is_app_mentioned)

\* C31: the workflow a call returns does not require a mention the event
\* lacks and has no channel or user filter naming (up to letter case, as
\* names are compared) another channel or user than the event's; and a
\* filter equal to `*` accepts every channel or user: a workflow with such a
\* filter passes exactly when it passes without the filter.
C31_FiltersRespected ==
    match_result # Pending =>
        /\ match_result # NoneValue =>
              /\ Get(match_result, "app_mention_required", FALSE) => match_args.is_app_mentioned
              /\ ("channel_name" \in DOMAIN match_result /\ match_result.channel_name # star) =>
                    Lower(match_result.channel_name) = Lower(match_args.channel_name)
              /\ ("user_name" \in DOMAIN match_result /\ match_result.user_name # star) =>
                    Lower(match_result.user_name) = Lower(match_args.user_name)
        /\ \A k \in 1..Len(workflows) :
              /\ Get(workflows[k], "channel_name", <<>>) = star =>
                    PassesFor(workflows[k], match_args) =
                        PassesFor(Without(workflows[k], "channel_name"), match_args)
              /\ Get(workflows[k], "user_name", <<>>) = star =>
                    PassesFor(workflows[k], match_args) =
                        PassesFor(Without(workflows[k], "user_name"), match_args)

\* a call that skips a workflow requiring the mention the event lacks and
\* returns the next one, whose channel filter is `*`, for an event of the
\* channel dev
C31_Witness ==
    /\ Len(workflows) = 2
    /\ workflows[1].name = "mention"
    /\ ~match_args.is_app_mentioned
    /\ workflows[2].name = "chanstar"
    /\ match_args.channel_name = dev
    /\ match_result = workflows[2]

LoadFailures == {"missing", "unreadable", "invalid_yaml", "not_mapping"}

\* C35: a load that succeeds replaces the whole list by the list of the file
\* (the empty list for a mapping without the key); a load that fails because
\* the file is missing, unreadable or not parseable into a mapping leaves
\* the list as it was; the list changes in no other step, and every list a
\* call of match_workflow has iterated is a whole list of a file or the
\* empty list of construction.
C35_ReloadAllOrNothing ==
    [][/\ last_load' # last_load =>
             /\ last_load'.returned =>
                   /\ last_load'.file.kind = "mapping"
                   /\ workflows' = Get(last_load'.file.data, "workflows", << >>)
             /\ last_load'.file.kind \in LoadFailures =>
                   /\ ~last_load'.returned
                   /\ workflows' = workflows
       /\ last_load' = last_load => workflows' = workflows
       /\ \A i \in 1..Len(match_calls') :
             match_calls'[i].registry \in HandlerRegistries]_vars

\* a list of two workflows has matched an event and is still loaded after a
\* reload that met a file that does not parse
C35_Witness ==
    /\ last_load.n = 2
    /\ last_load.file.kind = "invalid_yaml"
    /\ match_calls # << >>
    /\ match_calls[1].result # NoneValue
    /\ match_calls[1].registry = workflows

(***************************************************************************)
(* C33, C34: the modes of execution.                                       *)
(***************************************************************************)
\* the key execute_prompt_workflow injects the instructions under
InjectedKey == "specific_instructions_to_ai"

\* the payload is the event and the instruction document under the key
InjectedInto(payload) ==
    /\ DOMAIN payload = DOMAIN event_data \cup {InjectedKey}
    /\ payload[InjectedKey] = <<"content of", workflow.action_prompt>>
    /\ \A k \in DOMAIN event_data : payload[k] = event_data[k]
    /\ InjectedKey \notin DOMAIN event_data

\* C33: the child of a workflow with an instruction document gets the event
\* and the document's content under one reserved key, the handler's event is
\* left without that key, and the instructions prompt_executor.py reads from
\* its argument are that content.
C33_InstructionsReachChild ==
    \A i \in 1..Len(spawned) :
        (/\ spawned[i].program = <<"prompt_executor.py">>
         /\ Get(workflow, "action_prompt", NoneStr) # NoneStr) =>
            /\ InjectedInto(spawned[i].payload)
            /\ runbook_content(spawned[i].payload) = spawned[i].payload[InjectedKey]

\* C34: the children spawned for a workflow are those of one mode, decided by
\* its references: prompt_executor.py with the injected instructions when
\* action_prompt is set, whether or not action_script is; the script with
\* the event when only action_script is set; prompt_executor.py with the
\* event as it is when neither is set.
C34_OneModeByReference ==
    spawned # << >> =>
        LET action_prompt == Get(workflow, "action_prompt", NoneStr)
            action_script == Get(workflow, "action_script", NoneStr)
            spawn == spawned[1]
        IN  /\ Len(spawned) = 1
            /\ action_prompt # NoneStr =>
                  /\ spawn.program = <<"prompt_executor.py">>
                  /\ spawn.timeout = prompt_timeout
                  /\ InjectedInto(spawn.payload)
            /\ (action_prompt = NoneStr /\ action_script # NoneStr) =>
                  /\ spawn.program = <<"scripts", action_script>>
                  /\ spawn.timeout = script_timeout
                  /\ spawn.payload = event_data
            /\ (action_prompt = NoneStr /\ action_script = NoneStr) =>
                  /\ spawn.program = <<"prompt_executor.py">>
                  /\ spawn.timeout = prompt_timeout
                  /\ spawn.payload = event_data

\* a workflow carrying both references has run, as prompt_executor.py, and
\* its answer has been posted
C34_Witness ==
    /\ workflow # NoneValue
    /\ Get(workflow, "action_prompt", NoneStr) # NoneStr
    /\ Get(workflow, "action_script", NoneStr) # NoneStr
    /\ Len(spawned) = 1
    /\ spawned[1].program = <<"prompt_executor.py">>
    /\ Len(posted) = 1

(***************************************************************************)
(* C36 - C39: what a delivery can and cannot set off.                      *)
(***************************************************************************)
\* the event comes from a bot or from the bot itself
BotOrigin(ev) ==
    \/ "bot_id" \in DOMAIN ev
    \/ Get(ev, "subtype", NoneStr) \in {"bot_message", "message_changed", "message_deleted"}
    \/ ev.user = BotUserId

\* the handler has got as far as process_message
ReachedMatching ==
    \/ h_pc \in {"process", "execute", "respond"}
    \/ workflow # NoneValue
    \/ spawned # << >>
    \/ posted # << >>

\* C36: the handling of an event with a bot_id, with one of the subtypes
\* bot_message, message_changed, message_deleted, or sent by the bot's own
\* user id never gets to process_message: no workflow is matched, no child
\* spawned and nothing posted.
C36_BotEventsInert ==
    (event_data # NoneValue /\ BotOrigin(event_data)) => ~ReachedMatching

\* C37: handle_message_event_async has the event's key in the set before it
\* goes on to the app configuration, the bot checks and the workflow; no
\* later step of a handling takes a key out, whatever its outcome; and a
\* delivery whose key is in the set when it arrives returns at once with no
\* workflow matched, no child spawned and nothing posted.
C37_KeyKeptAfterFailure ==
    [][/\ (h_pc = "idle" /\ ingress = "verified" /\ h_pc' = "identify") =>
             message_key(event_data') \in processed_messages'
       /\ h_pc # "idle" => processed_messages' = processed_messages
       /\ (/\ h_pc = "idle"
           /\ ingress = "verified"
           /\ event_data' # NoneValue
           /\ message_key(event_data') \in processed_messages) =>
              /\ h_pc' = "return"
              /\ outcome' \in {"already_processed", "ignored"}
              /\ workflow' = NoneValue
              /\ spawned' = << >>
              /\ posted' = << >>]_vars

\* a delivery through handle_event_async has ended with an error after its
\* workflow was matched and before a child was spawned, and its key is in
\* the set
C37_Witness ==
    /\ h_pc = "return"
    /\ ingress = "verified"
    /\ outcome = "error"
    /\ workflow # NoneValue
    /\ spawned = << >>
    /\ message_key(event_data) \in processed_messages

\* C38: a failed reaction does not keep the matched workflow from being
\* dispatched: unless the fetch of the thread fails, the handling goes on to
\* execute_workflow and ends normally.  A failed fetch of the thread, which
\* happens on a reply inside a thread only, ends the handling in the
\* handler's except block with no child spawned and nothing posted.
C38_SideEffectFailures ==
    /\ (reaction = "failed" /\ history # "error") =>
          /\ h_pc \in {"execute", "respond", "return"}
          /\ workflow # NoneValue
          /\ h_pc = "return" => outcome = "success"
    /\ history = "error" =>
          /\ "thread_ts" \in DOMAIN event_data
          /\ event_data.thread_ts # event_data.ts
          /\ workflow # NoneValue
          /\ h_pc = "return"
          /\ outcome = "error"
          /\ spawned = << >>
          /\ workflow_response = NoneValue
          /\ posted = << >>

\* the reaction went through, the fetch of the thread failed, and the
\* handling has ended in the except block
C38_Witness ==
    /\ reaction = "ok"
    /\ history = "error"
    /\ h_pc = "return"
    /\ ingress = "verified"

\* the result execute_workflow returned lacks a text or a channel
Unsendable(response) ==
    \/ Get(response, "text", "") = ""
    \/ Get(response, "channel", << >>) = << >>

\* C39: whatever is posted carries the non-empty text and the non-empty
\* channel of the result; a handling whose result lacks either of them (the
\* child exited 0 and printed an error object, or a result with an empty
\* text) posts nothing and ends normally.
C39_PostedOnlyWithTextAndChannel ==
    /\ posted # << >> =>
          /\ ~Unsendable(workflow_response)
          /\ Len(posted) = 1
          /\ posted[1].text = workflow_response.text
          /\ posted[1].channel = workflow_response.channel
    /\ (h_pc = "return" /\ workflow_response # NoneValue /\ Unsendable(workflow_response)) =>
          /\ posted = << >>
          /\ outcome = "success"

\* a child that exited 0 and printed an error object: the handling has ended
\* normally and nothing was posted
C39_Witness ==
    /\ h_pc = "return"
    /\ outcome = "success"
    /\ spawned # << >>
    /\ child.returncode = 0
    /\ workflow_response = [error |-> "failed"]
    /\ posted = << >>

====
